---- MODULE Spec2Model ----
(***************************************************************************)
(* Static-schedule sync, disk cache and enrichment-index handling of the   *)
(* LtTransport client (src/src/index.ts) and the gtfs/sync module          *)
(* (src/unnamed/part_004).                                                 *)
(*                                                                         *)
(* Every `await` of the source is a point where another task of the same   *)
(* client may run, so each asynchronous function is split into one action  *)
(* per await.  Snapshots are abstracted to the number of the download that *)
(* produced them: a file holding n holds the entity parsed from download n.*)
(***************************************************************************)
EXTENDS Integers, Sequences, FiniteSets, TLC

\* ------------------------------------------------------------------------
\* Bounds of the model
\* ------------------------------------------------------------------------
MaxTicks == 2
MaxSyncCalls == 2
MaxReads == 2
MaxFaults == 1
MaxRemoteChanges == 1
MaxFeedRows == 1
MaxRows == 3
MaxLen == 3
MaxRoutes == 2
TickMs == 30000

\* ------------------------------------------------------------------------
\* Program constants
\* ------------------------------------------------------------------------
ThrottleMs == 60000
StaleThresholdMs == 300000
SecondsPerDay == 86400

\* the cities whose cache the model follows: two of CITY_CONFIGS and one
\* registered through customCities
BuiltInCities == {"vilnius", "panevezys"}
CustomCities == {"marijampole"}
\* the city the single-task specifications call sync and the readers on;
\* they follow its cache and that of the custom city only
SyncedCities == {"vilnius"}

SyncTasks == {"s1"}
ReadTasks == {"r1"}

Null == "null"
Undefined == "undefined"
Tokens == {"lm1", "lm2"}
RemoteTokens == Tokens \cup {Null}

\* value of an entity file: Absent, Corrupt (unparseable) or the number of the
\* download whose parsed entity it holds
Absent == 0
Corrupt == -1

\* meta.json: absent, unparseable, or a CacheMeta record (its counts are those
\* of download `snap`)
MetaAbsent == [state |-> "absent", lastModified |-> Null, snap |-> 0]
MetaCorrupt == [state |-> "corrupt", lastModified |-> Null, snap |-> 0]
CacheMeta(lm, n) == [state |-> "ok", lastModified |-> lm, snap |-> n]

\* order of lines 541-549 of syncGtfs; "meta" is kept in metaFile
DataFiles == <<"routes", "stops", "trips", "shapes", "calendar",
               "calendar_dates", "agencies", "stop_times">>
DataFileSet == {DataFiles[i] : i \in 1..Len(DataFiles)}
CoreFiles == {"routes", "stops"}
ExtendedFiles == <<"trips", "shapes", "calendar", "calendar_dates",
                   "agencies", "stop_times">>
NumPersistSteps == Len(DataFiles) + 1

NoTime == -1
NoCache == [src |-> Absent, id |-> 0]
NoPath == [city |-> "-", ts |-> NoTime]
\* matchRoute lines 92 and 110 (routeLongName <<>> stands for null)
NoMatch == [destination |-> Null, routeLongName |-> <<>>, matched |-> FALSE]
NoResult == [kind |-> "none", status |-> "-", err |-> "-", errCity |-> "-",
             cause |-> FALSE, counts |-> 0, lastModified |-> Null]

VARIABLES
  client,         \* options the LtTransport client was constructed with
  now,            \* Date.now()
  remote,         \* Last-Modified header served for each city's archive
  metaFile,       \* <cacheDir>/<city>/meta.json
  dataFile,       \* <cacheDir>/<city>/<entity>.json
  tmpFiles,       \* temporary archive files present in os.tmpdir()
  lastSyncTimes,  \* LtTransport.lastSyncTimes
  routeCaches,    \* LtTransport.routeCaches
  sy,             \* the sync() calls in flight, one per task
  rd,             \* the read calls in flight, one per task
  nSync,          \* sync() calls started
  nRead,          \* read calls started
  nBuilt,         \* enrichment indexes built so far (instance identity)
  nFaults,        \* network, archive and disk failures so far
  nRemote,        \* changes of the remote archive so far
  hist            \* history of completed syncs, per built-in city

vars == <<client, now, remote, metaFile, dataFile, tmpFiles, lastSyncTimes,
          routeCaches, sy, rd, nSync, nRead, nBuilt, nFaults, nRemote, hist>>

Cities == BuiltInCities \cup CustomCities

\* ------------------------------------------------------------------------
\* Pure helpers
\* ------------------------------------------------------------------------

\* loadCacheMeta: null when meta.json is missing or does not parse
LoadCacheMeta(c) ==
  IF metaFile[c].state = "ok" THEN metaFile[c] ELSE MetaAbsent

\* a loader that hands back whatever the file holds
LoadCachedFileUnchecked(c, f) == dataFile[c][f]

\* loadCachedRoutes / loadCachedStops / loadCachedTrips ...: null (Absent)
\* when the file is missing or does not parse
LoadCachedFile(c, f) ==
  IF dataFile[c][f] = Corrupt THEN Absent ELSE dataFile[c][f]

\* cachedMeta?.lastModified
OptLastModified(meta) ==
  IF meta.state = "ok" THEN meta.lastModified ELSE Undefined

\* the test of line 426 without its null check
CacheIsCurrentNullEqual(force, cachedMeta, remoteLastModified) ==
  /\ ~force
  /\ OptLastModified(cachedMeta) = remoteLastModified

\* syncGtfs line 426: the 'already current' test
CacheIsCurrent(force, cachedMeta, remoteLastModified) ==
  /\ ~force
  /\ OptLastModified(cachedMeta) = remoteLastModified
  /\ remoteLastModified # Null

\* the test of line 402 without `!force`
ThrottledIgnoringForce(force, lastSync, nowAtCall) ==
  /\ lastSync # NoTime
  /\ (nowAtCall - lastSync) < ThrottleMs

\* the test of line 402 with a window of half the length
ThrottledHalfWindow(force, lastSync, nowAtCall) ==
  /\ ~force
  /\ lastSync # NoTime
  /\ 2 * (nowAtCall - lastSync) < ThrottleMs

\* LtTransport.sync line 402: the throttle test
Throttled(force, lastSync, nowAtCall) ==
  /\ ~force
  /\ lastSync # NoTime
  /\ (nowAtCall - lastSync) < ThrottleMs

\* a temporary archive name that leaves the city out
TempPathByTimeOnly(city, ts) == [city |-> "-", ts |-> ts]

\* syncGtfs line 459: join(tmpdir(), `gtfs-${city}-${Date.now()}.zip`)
TempPath(city, ts) == [city |-> city, ts |-> ts]

\* loadGtfsCache read in one piece (used where no writer can interleave):
\* the meta and both core entities must load
CacheLoadable(c) ==
  /\ LoadCacheMeta(c).state = "ok"
  /\ LoadCachedFile(c, "routes") # Absent
  /\ LoadCachedFile(c, "stops") # Absent

\* a thrown value: an Error raised by fetch / fs / yauzl, or a GtfsSyncError
\* thrown by syncGtfs itself (line 451)
PlainError == [type |-> "Error", city |-> "-", cause |-> FALSE]
HttpStatusError(c) == [type |-> "GtfsSyncError", city |-> c, cause |-> FALSE]

\* syncGtfs lines 559-568: rethrow a GtfsSyncError, wrap anything else
WrapError(c, thrown) ==
  IF thrown.type = "GtfsSyncError"
    THEN thrown
    ELSE [type |-> "GtfsSyncError", city |-> c, cause |-> (thrown.type = "Error")]

ErrorResult(e) ==
  [NoResult EXCEPT !.kind = "error", !.err = e.type, !.errCity = e.city,
                   !.cause = e.cause]

\* SyncResult of lines 428-435 / 406-413 and of lines 551-558
UpToDateResult(meta) ==
  [NoResult EXCEPT !.kind = "ok", !.status = "up-to-date",
                   !.counts = meta.snap, !.lastModified = meta.lastModified]
UpdatedResult(n, lm) ==
  [NoResult EXCEPT !.kind = "ok", !.status = "updated",
                   !.counts = n, !.lastModified = lm]

\* ------------------------------------------------------------------------
\* Initial state: a freshly constructed client over an empty cache directory
\* ------------------------------------------------------------------------
IdleSync ==
  [pc |-> "idle", city |-> "-", force |-> FALSE, now |-> 0,
   remoteLastModified |-> Null, cachedMeta |-> MetaAbsent,
   snap |-> 0, tempPath |-> NoPath, k |-> 0, pending |-> "-",
   res |-> NoResult,
   \* what the call has done so far (not program state)
   throttled |-> FALSE, short |-> "-", loadable |-> "-",
   probes |-> 0, downloads |-> 0, wrote |-> FALSE, tempMade |-> FALSE,
   immediate |-> FALSE, recent |-> FALSE, window |-> FALSE]

\* a call that is none of getVehicles, a decoder or an enrichment function
NoCall == [text |-> <<>>]

IdleRead ==
  [pc |-> "idle", op |-> "-", city |-> "-", k |-> 0,
   routes |-> Absent,     \* routes read from disk by getRouteCache
   snaps |-> {},          \* downloads the entities loaded so far come from
   index |-> NoCache,     \* RouteCache the call answered from
   res |-> "-",
   synced |-> FALSE,      \* whether a sync had succeeded when it answered
   call |-> NoCall]       \* the locals of a feed, decoder or enrichment call

InitHist ==
  [everSynced |-> FALSE,   \* some sync of the city has returned a result
   lastEnd |-> NoTime,     \* when the last sync that returned a result ended
   lastStart |-> NoTime,   \* when the last call whose syncGtfs returned began
   gap |-> TRUE,           \* time has passed since the last sync call ended
   prevOk |-> FALSE,       \* the last completed sync call returned a result
   remChanged |-> FALSE,   \* remote token changed since the current call began
   remChangedPrev |-> FALSE, \* ... since the call before it began
   genSnap |-> 0,          \* download persisted by the last 'updated' sync
   builds |-> 0]           \* indexes built since the last 'updated' sync

\* the options of `new LtTransport()`: index.ts 208-218, schemas.ts 355-382
DefaultClient ==
  [autoEnrich |-> TRUE, filterInvalidCoords |-> TRUE, filterStale |-> FALSE]

Init ==
  /\ client = DefaultClient
  /\ now = 0
  /\ remote = [c \in SyncedCities |-> "lm1"]
  /\ metaFile = [c \in SyncedCities \cup CustomCities |-> MetaAbsent]
  /\ dataFile = [c \in SyncedCities \cup CustomCities |->
                   [f \in DataFileSet |-> Absent]]
  /\ tmpFiles = {}
  /\ lastSyncTimes = [c \in SyncedCities \cup CustomCities |-> NoTime]
  /\ routeCaches = [c \in SyncedCities \cup CustomCities |-> NoCache]
  /\ sy = [t \in SyncTasks |-> IdleSync]
  /\ rd = [r \in ReadTasks |-> IdleRead]
  /\ nSync = 0
  /\ nRead = 0
  /\ nBuilt = 0
  /\ nFaults = 0
  /\ nRemote = 0
  /\ hist = [c \in SyncedCities |-> InitHist]

\* ------------------------------------------------------------------------
\* History bookkeeping (not program state)
\* ------------------------------------------------------------------------

\* a sync() call for city c begins
HistBegin(h, c) ==
  IF c \notin DOMAIN h THEN h ELSE
  [h EXCEPT ![c] = [@ EXCEPT !.remChangedPrev = h[c].remChanged,
                             !.remChanged = FALSE]]

\* a sync() call for city c, begun at `began`, returns `result` or throws it;
\* `viaGtfs` when the result is the one syncGtfs returned
HistEnd(h, c, result, began, viaGtfs) ==
  IF c \notin DOMAIN h THEN h ELSE
  [h EXCEPT ![c] =
     [@ EXCEPT !.prevOk = (result.kind = "ok"),
               !.gap = FALSE,
               !.everSynced = (@ \/ result.kind = "ok"),
               !.lastEnd = IF result.kind = "ok" THEN now ELSE @,
               !.lastStart = IF viaGtfs THEN began ELSE @,
               !.genSnap = IF result.status = "updated" THEN result.counts ELSE @,
               !.builds = IF result.status = "updated" THEN 0 ELSE @]]

\* the locals of a call that has ended are gone; what it did is kept
Ended(s, result) ==
  [s EXCEPT !.pc = "done", !.res = result, !.now = 0,
            !.remoteLastModified = Null, !.cachedMeta = MetaAbsent,
            !.snap = 0, !.k = 0, !.pending = "-"]

\* a failure of the network, the archive or the disk may be injected
CanFail == nFaults < MaxFaults

\* ------------------------------------------------------------------------
\* LtTransport.sync and syncGtfs
\* ------------------------------------------------------------------------

\* the call ends by throwing `thrown` out of syncGtfs's try block: sync()
\* lets it pass and touches neither lastSyncTimes nor routeCaches
SyncThrow(t, s, h, thrown) ==
  LET result == ErrorResult(WrapError(s.city, thrown)) IN
  /\ sy' = [sy EXCEPT ![t] = Ended(s, result)]
  /\ hist' = HistEnd(h, s.city, result, s.now, FALSE)

\* sync() lines 424-429 without `lastSyncTimes.set`
SyncSucceedNoStamp(t, s, h, result) ==
  /\ sy' = [sy EXCEPT ![t] = Ended(s, result)]
  /\ hist' = HistEnd(h, s.city, result, s.now, TRUE)
  /\ lastSyncTimes' = lastSyncTimes
  /\ routeCaches' = [routeCaches EXCEPT ![s.city] = NoCache]

\* syncGtfs returns `result`: sync() lines 424-429 record the time of the
\* call and drop the in-memory index
SyncSucceed(t, s, h, result) ==
  /\ sy' = [sy EXCEPT ![t] = Ended(s, result)]
  /\ hist' = HistEnd(h, s.city, result, s.now, TRUE)
  /\ lastSyncTimes' = [lastSyncTimes EXCEPT ![s.city] = s.now]
  /\ routeCaches' = [routeCaches EXCEPT ![s.city] = NoCache]

\* syncGtfs lines 389-417: CITY_CONFIGS[city] is read from the built-in
\* table, outside the try block; then the HEAD request is issued
EnterSyncGtfs(t, s, h) ==
  IF s.city \in BuiltInCities
    THEN /\ sy' = [sy EXCEPT ![t] = [s EXCEPT !.pc = "head", !.probes = @ + 1]]
         /\ hist' = h
    ELSE LET result == ErrorResult([type |-> "TypeError", city |-> "-",
                                    cause |-> FALSE]) IN
         /\ sy' = [sy EXCEPT ![t] = Ended(s, result)]
         /\ hist' = HistEnd(h, s.city, result, s.now, FALSE)

\* sync(city, force) for a city of the effective configuration, up to its
\* first await
SyncCall(t, c, force) ==
  /\ sy[t].pc \in {"idle", "done"}
  /\ nSync < MaxSyncCalls
  /\ nSync' = nSync + 1
  /\ UNCHANGED <<client, now, remote, metaFile, dataFile, tmpFiles, lastSyncTimes,
                 routeCaches, rd, nRead, nBuilt, nFaults, nRemote>>
  /\ LET thr == Throttled(force, lastSyncTimes[c], now)
         hc == IF c \in DOMAIN hist THEN hist[c] ELSE InitHist
         s == [IdleSync EXCEPT
                 !.city = c, !.force = force, !.now = now,
                 !.throttled = thr,
                 !.immediate = (hc.prevOk /\ ~hc.gap),
                 !.recent = (/\ hc.lastEnd # NoTime
                             /\ now - hc.lastEnd < ThrottleMs),
                 !.window = (/\ hc.lastStart # NoTime
                             /\ now - hc.lastStart < ThrottleMs)]
         h == HistBegin(hist, c)
     IN IF thr
          THEN /\ sy' = [sy EXCEPT ![t] = [s EXCEPT !.pc = "throttle"]]
               /\ hist' = h
          ELSE EnterSyncGtfs(t, s, h)

\* sync lines 404-415: the throttled call answers from the cache when
\* loadGtfsCache finds one, and otherwise goes on to syncGtfs
SyncThrottleLoad(t) ==
  LET s == sy[t] IN
  /\ s.pc = "throttle"
  /\ UNCHANGED <<client, now, remote, metaFile, dataFile, tmpFiles, lastSyncTimes,
                 routeCaches, rd, nSync, nRead, nBuilt, nFaults, nRemote>>
  /\ IF CacheLoadable(s.city)
       THEN LET result == UpToDateResult(LoadCacheMeta(s.city)) IN
            /\ sy' = [sy EXCEPT ![t] = Ended([s EXCEPT !.loadable = "yes"], result)]
            /\ hist' = HistEnd(hist, s.city, result, s.now, FALSE)
       ELSE EnterSyncGtfs(t, [s EXCEPT !.loadable = "no"], hist)

\* syncGtfs lines 412-421: the HEAD response arrives, or the request fails
\* or is aborted by its timeout
SyncHead(t) ==
  LET s == sy[t] IN
  /\ s.pc = "head"
  /\ UNCHANGED <<client, now, remote, metaFile, dataFile, tmpFiles, lastSyncTimes,
                 routeCaches, rd, nSync, nRead, nBuilt, nRemote>>
  /\ \/ /\ sy' = [sy EXCEPT ![t] = [s EXCEPT !.pc = "check",
                     !.remoteLastModified = remote[s.city]]]
        /\ UNCHANGED <<hist, nFaults>>
     \/ /\ CanFail
        /\ nFaults' = nFaults + 1
        /\ SyncThrow(t, s, hist, PlainError)

\* syncGtfs lines 424-448: load the stored metadata, return 'up-to-date'
\* when the cache is current, else issue the archive download
SyncCheck(t) ==
  LET s == sy[t]
      meta == LoadCacheMeta(s.city)
      s1 == [s EXCEPT !.cachedMeta = meta]
  IN
  /\ s.pc = "check"
  /\ UNCHANGED <<client, now, remote, metaFile, dataFile, tmpFiles, rd, nSync, nRead,
                 nBuilt, nFaults, nRemote>>
  /\ IF CacheIsCurrent(s.force, meta, s.remoteLastModified)
       THEN SyncSucceed(t, [s1 EXCEPT !.short = "yes"], hist,
                        UpToDateResult(meta))
       ELSE /\ sy' = [sy EXCEPT ![t] = [s1 EXCEPT !.short = "no",
                         !.pc = "download", !.downloads = @ + 1]]
            /\ UNCHANGED <<hist, lastSyncTimes, routeCaches>>

\* syncGtfs lines 444-461: the archive arrives (and the temp file write is
\* started under a path made from Date.now()), or the request fails, or the
\* server answers with a non-success status
SyncDownload(t) ==
  LET s == sy[t] IN
  /\ s.pc = "download"
  /\ UNCHANGED <<client, now, remote, metaFile, dataFile, tmpFiles, lastSyncTimes,
                 routeCaches, rd, nSync, nRead, nBuilt, nRemote>>
  /\ \/ /\ sy' = [sy EXCEPT ![t] = [s EXCEPT !.pc = "tempwrite",
                     !.snap = nSync,
                     !.tempPath = TempPath(s.city, now)]]
        /\ UNCHANGED <<hist, nFaults>>
     \/ /\ CanFail
        /\ nFaults' = nFaults + 1
        /\ \/ SyncThrow(t, s, hist, PlainError)
           \/ SyncThrow(t, s, hist, HttpStatusError(s.city))

\* syncGtfs line 461: writeFile(tempPath) completes, or fails before the
\* file exists, or fails after it was created (a partial file stays)
SyncTempWrite(t) ==
  LET s == sy[t] IN
  /\ s.pc = "tempwrite"
  /\ UNCHANGED <<client, now, remote, metaFile, dataFile, lastSyncTimes,
                 routeCaches, rd, nSync, nRead, nBuilt, nRemote>>
  /\ \/ /\ tmpFiles' = tmpFiles \cup {s.tempPath}
        /\ sy' = [sy EXCEPT ![t] = [s EXCEPT !.pc = "extract",
                                             !.tempMade = TRUE]]
        /\ UNCHANGED <<hist, nFaults>>
     \/ /\ CanFail
        /\ nFaults' = nFaults + 1
        /\ \/ /\ tmpFiles' = tmpFiles
              /\ SyncThrow(t, s, hist, PlainError)
           \/ /\ tmpFiles' = tmpFiles \cup {s.tempPath}
              /\ SyncThrow(t, [s EXCEPT !.tempMade = TRUE], hist, PlainError)

\* syncGtfs lines 472-510: open the archive, read and parse its entries
SyncExtract(t) ==
  LET s == sy[t] IN
  /\ s.pc = "extract"
  /\ UNCHANGED <<client, now, remote, metaFile, dataFile, tmpFiles, lastSyncTimes,
                 routeCaches, rd, nSync, nRead, nBuilt, nRemote, hist>>
  /\ \/ /\ sy' = [sy EXCEPT ![t] = [s EXCEPT !.pc = "cleanup", !.pending = "ok"]]
        /\ nFaults' = nFaults
     \/ /\ CanFail
        /\ nFaults' = nFaults + 1
        /\ sy' = [sy EXCEPT ![t] = [s EXCEPT !.pc = "cleanup", !.pending = "throw"]]

\* SyncCleanup for a sync() that would drop the in-memory index in a
\* `finally` of its own, whether syncGtfs returned or threw
SyncCleanupDropsIndex(t) ==
  LET s == sy[t] IN
  /\ s.pc = "cleanup"
  /\ UNCHANGED <<client, now, remote, metaFile, dataFile, lastSyncTimes,
                 rd, nSync, nRead, nBuilt, nFaults, nRemote>>
  /\ tmpFiles' = tmpFiles \ {s.tempPath}
  /\ IF s.pending = "ok"
       THEN /\ sy' = [sy EXCEPT ![t] = [s EXCEPT !.pc = "persist", !.k = 1]]
            /\ hist' = hist
            /\ routeCaches' = routeCaches
       ELSE /\ SyncThrow(t, s, hist, PlainError)
            /\ routeCaches' = [routeCaches EXCEPT ![s.city] = NoCache]

\* syncGtfs lines 511-518: the finally block unlinks the temp file (the
\* unlink of a file the call has just written is taken to succeed), then the
\* error of the extraction, if any, goes on to the outer catch
SyncCleanup(t) ==
  LET s == sy[t] IN
  /\ s.pc = "cleanup"
  /\ UNCHANGED <<client, now, remote, metaFile, dataFile, lastSyncTimes,
                 routeCaches, rd, nSync, nRead, nBuilt, nFaults, nRemote>>
  /\ tmpFiles' = tmpFiles \ {s.tempPath}
  /\ IF s.pending = "ok"
       THEN /\ sy' = [sy EXCEPT ![t] = [s EXCEPT !.pc = "persist", !.k = 1]]
            /\ hist' = hist
       ELSE SyncThrow(t, s, hist, PlainError)

\* file written by the k-th save of lines 541-549
PersistFile(k) == IF k = 1 THEN "meta" ELSE DataFiles[k - 1]

\* one writeFile of lines 541-549 succeeding
WriteCacheFile(s) ==
  IF PersistFile(s.k) = "meta"
    THEN /\ metaFile' = [metaFile EXCEPT ![s.city] =
                           CacheMeta(s.remoteLastModified, s.snap)]
         /\ dataFile' = dataFile
    ELSE /\ dataFile' = [dataFile EXCEPT ![s.city][PersistFile(s.k)] = s.snap]
         /\ metaFile' = metaFile

\* one writeFile of lines 541-549 failing after it truncated the file
SpoilCacheFile(s) ==
  IF PersistFile(s.k) = "meta"
    THEN /\ metaFile' = [metaFile EXCEPT ![s.city] = MetaCorrupt]
         /\ dataFile' = dataFile
    ELSE /\ dataFile' = [dataFile EXCEPT ![s.city][PersistFile(s.k)] = Corrupt]
         /\ metaFile' = metaFile

\* syncGtfs lines 541-549: the saves run one after another, each awaited
SyncPersist(t) ==
  LET s == sy[t] IN
  /\ s.pc = "persist"
  /\ UNCHANGED <<client, now, remote, tmpFiles, lastSyncTimes, routeCaches, rd,
                 nSync, nRead, nBuilt, nRemote>>
  /\ \/ /\ WriteCacheFile(s)
        /\ sy' = [sy EXCEPT ![t] =
                    [s EXCEPT !.wrote = TRUE,
                              !.k = @ + 1,
                              !.pc = IF s.k = NumPersistSteps THEN "return"
                                     ELSE "persist"]]
        /\ UNCHANGED <<hist, nFaults>>
     \/ /\ CanFail
        /\ nFaults' = nFaults + 1
        /\ \/ /\ UNCHANGED <<metaFile, dataFile>>
              /\ SyncThrow(t, s, hist, PlainError)
           \/ /\ SpoilCacheFile(s)
              /\ SyncThrow(t, [s EXCEPT !.wrote = TRUE], hist, PlainError)

\* syncGtfs lines 551-558 and sync lines 424-429
SyncReturn(t) ==
  LET s == sy[t] IN
  /\ s.pc = "return"
  /\ UNCHANGED <<client, now, remote, metaFile, dataFile, tmpFiles, rd, nSync, nRead,
                 nBuilt, nFaults, nRemote>>
  /\ SyncSucceed(t, s, hist, UpdatedResult(s.snap, s.remoteLastModified))

\* ------------------------------------------------------------------------
\* Readers: loadGtfsCache, LtTransport.getRoutes, LtTransport.getStops
\* ------------------------------------------------------------------------
ReadOps == {"loadGtfsCache", "getRoutes", "getStops"}

\* the locals of a read call that has ended are gone
ReadEnded(q, result) ==
  [q EXCEPT !.pc = "done", !.res = result, !.k = 0, !.routes = Absent,
            !.synced = hist[q.city].everSynced]

\* buildRouteCache over the routes read from disk: a new RouteCache instance
BuildRouteCache(routes, n) == [src |-> routes, id |-> n]

\* a read call, up to its first await.  getRoutes answers at once from
\* routeCaches when getRouteCache finds the city there (index.ts 574-577)
ReadCall(r, op, c) ==
  /\ rd[r].pc \in {"idle", "done"}
  /\ nRead < MaxReads
  /\ nRead' = nRead + 1
  /\ UNCHANGED <<client, now, remote, metaFile, dataFile, tmpFiles, lastSyncTimes,
                 routeCaches, sy, nSync, nBuilt, nFaults, nRemote, hist>>
  /\ LET q == [IdleRead EXCEPT !.op = op, !.city = c] IN
     rd' = [rd EXCEPT ![r] =
       CASE op = "loadGtfsCache" -> [q EXCEPT !.pc = "load", !.k = 0]
         [] op = "getStops" -> [q EXCEPT !.pc = "stops"]
         [] op = "getRoutes" ->
              IF routeCaches[c] # NoCache
                THEN ReadEnded([q EXCEPT !.index = routeCaches[c]], "routes")
                ELSE [q EXCEPT !.pc = "routes"]]

\* loadGtfsCache lines 582-601: meta, routes, stops, then the six extended
\* entities, each loaded by its own awaited read
LoadStep(r) ==
  LET q == rd[r]
      c == q.city
      f == DataFiles[q.k]
      got == LoadCachedFile(c, f)
      withGot == [q EXCEPT !.snaps = IF got = Absent THEN @ ELSE @ \cup {got},
                           !.k = @ + 1]
  IN
  /\ q.pc = "load"
  /\ UNCHANGED <<client, now, remote, metaFile, dataFile, tmpFiles, lastSyncTimes,
                 routeCaches, sy, nSync, nRead, nBuilt, nFaults, nRemote, hist>>
  /\ rd' = [rd EXCEPT ![r] =
       IF q.k = 0
         THEN IF LoadCacheMeta(c).state # "ok"
                THEN ReadEnded(q, "null")
                ELSE [q EXCEPT !.snaps = {LoadCacheMeta(c).snap}, !.k = 1]
       ELSE IF f = "routes"
         THEN [withGot EXCEPT !.routes = got]
       ELSE IF f = "stops"
         THEN IF q.routes = Absent \/ got = Absent
                THEN ReadEnded(q, "null")
                ELSE withGot
       ELSE IF q.k = Len(DataFiles)
         THEN ReadEnded(withGot, "cache")
         ELSE withGot]

\* getRouteCache line 580: loadCachedRoutes reads routes.json
RoutesLoad(r) ==
  LET q == rd[r] IN
  /\ q.pc = "routes"
  /\ UNCHANGED <<client, now, remote, metaFile, dataFile, tmpFiles, lastSyncTimes,
                 routeCaches, sy, nSync, nRead, nBuilt, nFaults, nRemote, hist>>
  /\ rd' = [rd EXCEPT ![r] = [q EXCEPT !.pc = "install",
                                       !.routes = LoadCachedFile(q.city, "routes")]]

\* getRouteCache lines 582-589 and getRoutes lines 491-506: build the index
\* from the routes that were read and store it, or throw SyncRequiredError
RoutesInstall(r) ==
  LET q == rd[r]
      cache == BuildRouteCache(q.routes, nBuilt + 1)
  IN
  /\ q.pc = "install"
  /\ UNCHANGED <<client, now, remote, metaFile, dataFile, tmpFiles, lastSyncTimes,
                 sy, nSync, nRead, nFaults, nRemote>>
  /\ IF q.routes # Absent
       THEN /\ routeCaches' = [routeCaches EXCEPT ![q.city] = cache]
            /\ nBuilt' = nBuilt + 1
            /\ hist' = [hist EXCEPT ![q.city].builds = @ + 1]
            /\ rd' = [rd EXCEPT ![r] = ReadEnded([q EXCEPT !.index = cache], "routes")]
       ELSE /\ rd' = [rd EXCEPT ![r] = ReadEnded(q, "SyncRequiredError")]
            /\ UNCHANGED <<routeCaches, nBuilt, hist>>

\* getStops lines 456-462
StopsLoad(r) ==
  LET q == rd[r]
      stops == LoadCachedFile(q.city, "stops")
  IN
  /\ q.pc = "stops"
  /\ UNCHANGED <<client, now, remote, metaFile, dataFile, tmpFiles, lastSyncTimes,
                 routeCaches, sy, nSync, nRead, nBuilt, nFaults, nRemote, hist>>
  /\ rd' = [rd EXCEPT ![r] =
       IF stops # Absent
         THEN ReadEnded([q EXCEPT !.snaps = {stops}], "stops")
         ELSE ReadEnded(q, "SyncRequiredError")]

\* ------------------------------------------------------------------------
\* Environment
\* ------------------------------------------------------------------------

\* the clock advances
Tick ==
  /\ now < MaxTicks * TickMs
  /\ now' = now + TickMs
  /\ hist' = [c \in DOMAIN hist |-> [hist[c] EXCEPT !.gap = TRUE]]
  /\ UNCHANGED <<client, remote, metaFile, dataFile, tmpFiles, lastSyncTimes,
                 routeCaches, sy, rd, nSync, nRead, nBuilt, nFaults, nRemote>>

\* the operator publishes a new archive (or stops sending Last-Modified)
RemoteChange(c) ==
  /\ nRemote < MaxRemoteChanges
  /\ nRemote' = nRemote + 1
  /\ \E tok \in RemoteTokens \ {remote[c]} :
       remote' = [remote EXCEPT ![c] = tok]
  /\ hist' = [hist EXCEPT ![c] = [@ EXCEPT !.remChanged = TRUE,
                                           !.remChangedPrev = TRUE]]
  /\ UNCHANGED <<client, now, metaFile, dataFile, tmpFiles, lastSyncTimes,
                 routeCaches, sy, rd, nSync, nRead, nBuilt, nFaults>>

SyncNext ==
  \/ \E t \in SyncTasks, c \in SyncedCities, force \in BOOLEAN :
       SyncCall(t, c, force)
  \/ \E t \in SyncTasks : SyncThrottleLoad(t)
  \/ \E t \in SyncTasks : SyncHead(t)
  \/ \E t \in SyncTasks : SyncCheck(t)
  \/ \E t \in SyncTasks : SyncDownload(t)
  \/ \E t \in SyncTasks : SyncTempWrite(t)
  \/ \E t \in SyncTasks : SyncExtract(t)
  \/ \E t \in SyncTasks : SyncCleanup(t)
  \/ \E t \in SyncTasks : SyncPersist(t)
  \/ \E t \in SyncTasks : SyncReturn(t)
  \/ Tick
  \/ \E c \in SyncedCities : RemoteChange(c)

ReadNext ==
  \/ \E r \in ReadTasks, op \in ReadOps, c \in SyncedCities : ReadCall(r, op, c)
  \/ \E r \in ReadTasks : LoadStep(r)
  \/ \E r \in ReadTasks : RoutesLoad(r)
  \/ \E r \in ReadTasks : RoutesInstall(r)
  \/ \E r \in ReadTasks : StopsLoad(r)

Next == SyncNext \/ ReadNext

\* sync calls, read calls and the environment, interleaved at every await
Spec == Init /\ [][Next]_vars

\* the same client when no read call is made: sync() reads nothing that a
\* read call writes, so its behaviour is the same under both
SyncSpec == Init /\ [][SyncNext]_vars

\* sync calls for the built-in city and for the city registered through
\* customCities
AnyCityNext ==
  \/ \E t \in SyncTasks, c \in CustomCities, force \in BOOLEAN :
       SyncCall(t, c, force)
  \/ SyncNext

AnyCitySpec == Init /\ [][AnyCityNext]_vars

\* ------------------------------------------------------------------------
\* Strings (a string is the sequence of its characters)
\* ------------------------------------------------------------------------
Alphabet == {"7", "g", "G", " "}

\* String.prototype.toUpperCase
ToUpperChar(ch) == IF ch = "g" THEN "G" ELSE ch
RECURSIVE ToUpperCase(_)
ToUpperCase(s) ==
  IF s = <<>> THEN <<>> ELSE <<ToUpperChar(Head(s))>> \o ToUpperCase(Tail(s))

\* String.prototype.trim
RECURSIVE TrimStart(_)
TrimStart(s) ==
  IF s # <<>> /\ Head(s) = " " THEN TrimStart(Tail(s)) ELSE s
RECURSIVE TrimEnd(_)
TrimEnd(s) ==
  IF s # <<>> /\ s[Len(s)] = " " THEN TrimEnd(SubSeq(s, 1, Len(s) - 1)) ELSE s
Trim(s) == TrimEnd(TrimStart(s))

\* ------------------------------------------------------------------------
\* Enrichment (src/src/enrichment/index.ts)
\* ------------------------------------------------------------------------

\* A Map<string, Route> is the sequence of its entries in insertion order,
\* no key twice.  A route's longName is the sequence of the parts that its
\* separator (' - ', ' – ', ' — ' or ' / ') divides it into: <<>> is '',
\* one part is a name without separator.
MapKeys(m) == {m[i].key : i \in 1..Len(m)}
MapHas(m, key) == key \in MapKeys(m)
MapGet(m, key) == m[CHOOSE i \in 1..Len(m) : m[i].key = key].route

\* Map.prototype.set: the value of a key already present is replaced
MapSet(m, key, route) ==
  IF MapHas(m, key)
    THEN [i \in 1..Len(m) |->
            IF m[i].key = key THEN [key |-> key, route |-> route] ELSE m[i]]
    ELSE Append(m, [key |-> key, route |-> route])

\* buildRouteCache lines 62-66: the normalized map, filled entry by entry
RECURSIVE NormalizedRoutes(_, _)
NormalizedRoutes(routes, acc) ==
  IF routes = <<>> THEN acc
  ELSE NormalizedRoutes(Tail(routes),
         MapSet(acc, ToUpperCase(Head(routes).key), Head(routes).route))

\* the RouteCache that buildRouteCache returns for a routes map
RouteCacheOf(routes) ==
  [routes |-> routes, normalizedRoutes |-> NormalizedRoutes(routes, <<>>)]

\* extractEnrichment: the destination is the last part of the long name, null
\* for an empty long name (routeLongName <<>> stands for null)
ExtractEnrichment(route) ==
  [destination |-> IF route.longName = <<>> THEN Null
                   ELSE route.longName[Len(route.longName)],
   routeLongName |-> route.longName,
   matched |-> TRUE]

\* matchRoute with the exact lookup skipped
MatchRouteFoldedOnly(gpsRoute, cache) ==
  LET normalized == Trim(gpsRoute) IN
  IF gpsRoute = <<>> \/ normalized = <<>> THEN NoMatch
  ELSE IF MapHas(cache.normalizedRoutes, ToUpperCase(normalized))
    THEN ExtractEnrichment(MapGet(cache.normalizedRoutes, ToUpperCase(normalized)))
  ELSE NoMatch

\* matchRoute lines 86-111
MatchRoute(gpsRoute, cache) ==
  LET normalized == Trim(gpsRoute) IN
  IF gpsRoute = <<>> \/ normalized = <<>> THEN NoMatch
  ELSE IF MapHas(cache.routes, normalized)
    THEN ExtractEnrichment(MapGet(cache.routes, normalized))
  ELSE IF MapHas(cache.normalizedRoutes, ToUpperCase(normalized))
    THEN ExtractEnrichment(MapGet(cache.normalizedRoutes, ToUpperCase(normalized)))
  ELSE NoMatch

\* enrichVehicle with a copy made on every path that looks the route up
EnrichVehicleAlwaysCopy(vehicle, cache) ==
  LET enrichment == MatchRoute(vehicle.route, cache) IN
  IF vehicle.destination # Null /\ vehicle.destination # ""
    THEN [same |-> TRUE, value |-> vehicle]
  ELSE IF ~enrichment.matched
    THEN [same |-> FALSE, value |-> vehicle]
  ELSE [same |-> FALSE,
        value |-> [vehicle EXCEPT !.destination = enrichment.destination]]

\* enrichVehicle lines 163-183; `same` tells whether the object returned is
\* the argument itself
EnrichVehicle(vehicle, cache) ==
  LET enrichment == MatchRoute(vehicle.route, cache) IN
  IF vehicle.destination # Null /\ vehicle.destination # ""
    THEN [same |-> TRUE, value |-> vehicle]
  ELSE IF ~enrichment.matched
    THEN [same |-> TRUE, value |-> vehicle]
  ELSE [same |-> FALSE,
        value |-> [vehicle EXCEPT !.destination = enrichment.destination]]

\* enrichVehicles lines 192-197
EnrichVehicles(vehicles, cache) ==
  [i \in 1..Len(vehicles) |-> EnrichVehicle(vehicles[i], cache).value]

\* ------------------------------------------------------------------------
\* City configurations (src/unnamed/part_006, LtTransport constructor)
\* ------------------------------------------------------------------------

\* built-in cities the model follows through getVehicles only
GpsOnlyCities == {"siauliai", "kaunas", "klaipeda"}
\* an id that is in no configuration
UnknownCities == {"atlantis"}
FeedCities == Cities \cup GpsOnlyCities \cup UnknownCities

\* minColumns of LITE_FORMAT_DESCRIPTORS.panevezys (the column indices are
\* folded into the fields of a lite line)
PanevezysLiteFormat == [defined |-> TRUE, minColumns |-> 9]
\* liteFormat: undefined
NoLiteFormat == [defined |-> FALSE, minColumns |-> 0]

GoldConfig(c) ==
  [tier |-> "gold",
   gps |-> [enabled |-> TRUE, format |-> "full", url |-> "gps_full.txt"],
   gtfs |-> [enabled |-> TRUE, url |-> "gtfs.zip"],
   liteFormat |-> NoLiteFormat]

\* CITY_CONFIGS_INTERNAL: the entries of the modelled built-in cities
CityConfigsInternal(c) ==
  CASE c \in {"vilnius", "kaunas", "klaipeda"} -> GoldConfig(c)
    [] c = "panevezys" ->
         [tier |-> "silver",
          gps |-> [enabled |-> TRUE, format |-> "lite", url |-> "gps.txt"],
          gtfs |-> [enabled |-> TRUE, url |-> "gtfs.zip"],
          liteFormat |-> PanevezysLiteFormat]
    [] c = "siauliai" ->
         [tier |-> "bronze",
          gps |-> [enabled |-> FALSE, format |-> Null, url |-> Null],
          gtfs |-> [enabled |-> TRUE, url |-> "gtfs.zip"],
          liteFormat |-> NoLiteFormat]

\* the cityOverrides the client is constructed with: kaunas is switched to
\* the lite format without a descriptor (cityOverrideSchema accepts it),
\* klaipeda loses its feed URL
CityOverrides ==
  [kaunas |-> [gps |-> [format |-> "lite"]],
   klaipeda |-> [gps |-> [url |-> Null]]]

\* the customCities the client is constructed with: a feed whose format is
\* not known yet (cityConfigSchema accepts a null format with a URL)
CustomCityConfigs ==
  [marijampole |->
     [tier |-> "silver",
      gps |-> [enabled |-> TRUE, format |-> Null, url |-> "marijampole.txt"],
      gtfs |-> [enabled |-> TRUE, url |-> "marijampole.zip"],
      liteFormat |-> NoLiteFormat]]

\* { ...base.gps, ...override.gps }
SpreadOver(base, override) ==
  [k \in DOMAIN base |-> IF k \in DOMAIN override THEN override[k] ELSE base[k]]

\* mergeCityConfig lines 278-286 (the overrides modelled change gps only)
MergeCityConfig(base, override) ==
  [tier |-> base.tier,
   gps |-> IF "gps" \in DOMAIN override
             THEN SpreadOver(base.gps, override.gps) ELSE base.gps,
   gtfs |-> base.gtfs,
   liteFormat |-> base.liteFormat]

\* the keys of the map built by buildEffectiveCityConfigs
EffectiveCityIds == BuiltInCities \cup GpsOnlyCities \cup DOMAIN CustomCityConfigs

\* getEffectiveCityConfig for one of these keys: the custom configuration,
\* else the built-in one with its override merged in
GetEffectiveCityConfig(c) ==
  IF c \in DOMAIN CustomCityConfigs THEN CustomCityConfigs[c]
  ELSE IF c \in DOMAIN CityOverrides
    THEN MergeCityConfig(CityConfigsInternal(c), CityOverrides[c])
  ELSE CityConfigsInternal(c)

\* ------------------------------------------------------------------------
\* Feed text and the two decoders (src/src/schemas.ts, src/unnamed/part_010)
\* ------------------------------------------------------------------------

\* A feed text is the sequence of its lines.  A header line carries its
\* column names; a data line carries the number of comma-separated fields it
\* has and the raw text of the fields the decoders read (a field beyond
\* `fields` is missing); `age` is how long before the fetch the position was
\* measured; `speed` and `bearing` are the raw texts of the Greitis and
\* Azimutas fields (lite: of the fields at speedIndex and bearingIndex).
BlankLine ==
  [kind |-> "blank", header |-> <<>>, fields |-> 0, vehicleNumber |-> "",
   lat |-> "", lon |-> "", age |-> 0, route |-> <<>>,
   speed |-> "", bearing |-> ""]
HeaderLine(cols) == [BlankLine EXCEPT !.kind = "header", !.header = cols]

\* requiredColumns, schemas.ts 621-627
RequiredColumns ==
  <<"Transportas", "Marsrutas", "MasinosNumeris", "Ilguma", "Platuma">>

\* Number(text) / z.coerce.number() on the raw field texts of the model
ToNumber(raw) ==
  CASE raw = "54687157" -> [finite |-> TRUE, n |-> 54687157]
    [] raw = "25279652" -> [finite |-> TRUE, n |-> 25279652]
    [] raw = "0" -> [finite |-> TRUE, n |-> 0]
    [] raw = "" -> [finite |-> TRUE, n |-> 0]
    [] raw = "3" -> [finite |-> TRUE, n |-> 3]
    [] raw = "90" -> [finite |-> TRUE, n |-> 90]
    [] raw = "360" -> [finite |-> TRUE, n |-> 360]
    [] raw = "400" -> [finite |-> TRUE, n |-> 400]
    [] raw = "-5" -> [finite |-> TRUE, n |-> -5]
    [] raw = "-90" -> [finite |-> TRUE, n |-> -90]
    [] raw = "86390" -> [finite |-> TRUE, n |-> 86390]
    [] raw = "90000" -> [finite |-> TRUE, n |-> 90000]
    [] OTHER -> [finite |-> FALSE, n |-> 0]

\* LITHUANIA_BOUNDS; the model holds degrees as integer millionths, so
\* normalizeCoordinate (raw / 1_000_000) leaves the integer as it is
LithuaniaBounds ==
  [latMin |-> 53890000, latMax |-> 56450000,
   lonMin |-> 20930000, lonMax |-> 26830000]
NormalizeCoordinate(raw) == raw

IsValidLithuaniaCoord(lat, lon) ==
  /\ lat >= LithuaniaBounds.latMin /\ lat <= LithuaniaBounds.latMax
  /\ lon >= LithuaniaBounds.lonMin /\ lon <= LithuaniaBounds.lonMax

\* isDataStale, part_002 69-82
IsDataStale(age, thresholdMs) == IF age < 0 THEN FALSE ELSE age > thresholdMs

\* buildColumnMap: the columns the header names (a data line names none)
ColumnsOf(line) ==
  IF line.kind = "header"
    THEN {line.header[i] : i \in 1..Len(line.header)} ELSE {}
ColumnIndex(header, col) == CHOOSE i \in 1..Len(header) : header[i] = col

\* buildRowObject: cols[idx]?.trim() ?? '' for a required column
RowHas(line, header, col) == ColumnIndex(header, col) <= line.fields

\* the mandatory fields of gpsFullRowSchema: Transportas and MasinosNumeris
\* are non-empty, Ilguma and Platuma coerce to numbers
RequiredFieldsValid(line, header) ==
  /\ RowHas(line, header, "Transportas")
  /\ RowHas(line, header, "MasinosNumeris") /\ line.vehicleNumber # ""
  /\ RowHas(line, header, "Ilguma") => ToNumber(line.lon).finite
  /\ RowHas(line, header, "Platuma") => ToNumber(line.lat).finite

\* whether the header names column col
HeaderNames(header, col) == \E i \in 1..Len(header) : header[i] = col

\* rowObject[col] for an optional column the header names: the trimmed field,
\* '' when the line is too short
FieldText(line, header, col, raw) ==
  IF RowHas(line, header, col) THEN raw ELSE ""

\* Greitis: z.coerce.number().nonnegative().default(0)
GreitisValid(line, header) ==
  HeaderNames(header, "Greitis") =>
    LET x == ToNumber(FieldText(line, header, "Greitis", line.speed)) IN
    x.finite /\ x.n >= 0

\* Azimutas: z.coerce.number().min(0).max(360).default(0)
AzimutasValid(line, header) ==
  HeaderNames(header, "Azimutas") =>
    LET x == ToNumber(FieldText(line, header, "Azimutas", line.bearing)) IN
    x.finite /\ x.n >= 0 /\ x.n <= 360

\* gpsFullRowSchema.safeParse succeeds
FullRowValid(line, header) ==
  /\ RequiredFieldsValid(line, header)
  /\ GreitisValid(line, header)
  /\ AzimutasValid(line, header)

\* row.Greitis / row.Azimutas after the schema: the coerced field, or the
\* default 0 when the header does not name the column
SchemaNumber(line, header, col, raw) ==
  IF HeaderNames(header, col) THEN ToNumber(FieldText(line, header, col, raw))
  ELSE ToNumber("0")

\* the remainder operator of JavaScript: the sign is that of the dividend
JsRem(a, b) == IF a >= 0 THEN a % b ELSE 0 - ((0 - a) % b)

\* normalizeBearing with a single remainder
NormalizeBearingOneRem(x) == IF ~x.finite THEN 0 ELSE JsRem(x.n, 360)

\* normalizeBearing, coordinates.ts 94-100
NormalizeBearing(x) ==
  IF ~x.finite THEN 0 ELSE JsRem(JsRem(x.n, 360) + 360, 360)

\* normalizeSpeed, coordinates.ts 108-113
NormalizeSpeed(x) == IF ~x.finite \/ x.n < 0 THEN 0 ELSE x.n

FieldNumber(line, header, col, raw) ==
  IF RowHas(line, header, col) THEN ToNumber(raw).n ELSE ToNumber("").n

\* parseVehicleLine: <<>> for null, else the one vehicle
ParseVehicleLine(line, header, staleThresholdMs) ==
  IF ~FullRowValid(line, header) THEN <<>>
  ELSE <<[vehicleNumber |-> line.vehicleNumber,
          route |-> IF RowHas(line, header, "Marsrutas") THEN Trim(line.route)
                    ELSE <<>>,
          latitude |->
            NormalizeCoordinate(FieldNumber(line, header, "Platuma", line.lat)),
          longitude |->
            NormalizeCoordinate(FieldNumber(line, header, "Ilguma", line.lon)),
          speed |-> NormalizeSpeed(SchemaNumber(line, header, "Greitis",
                                                line.speed)),
          bearing |-> NormalizeBearing(SchemaNumber(line, header, "Azimutas",
                                                    line.bearing)),
          isStale |-> IsDataStale(line.age, staleThresholdMs),
          destination |-> Null]>>

\* the filters of schemas.ts 648-657 applied to what parseVehicleLine gave
FullKept(parsed, options) ==
  IF parsed = <<>> THEN <<>>
  ELSE IF /\ options.filterInvalidCoords
          /\ ~IsValidLithuaniaCoord(parsed[1].latitude, parsed[1].longitude)
    THEN <<>>
  ELSE IF options.filterStale /\ parsed[1].isStale THEN <<>>
  ELSE parsed

\* the row loop with `break` where the source has `continue`
RECURSIVE FullRowsStopAtBadRow(_, _, _)
FullRowsStopAtBadRow(lines, header, options) ==
  IF lines = <<>> THEN <<>>
  ELSE LET kept == FullKept(ParseVehicleLine(Head(lines), header,
                                             options.staleThresholdMs), options)
       IN IF kept = <<>> THEN <<>>
          ELSE kept \o FullRowsStopAtBadRow(Tail(lines), header, options)

\* the row loop, schemas.ts 636-663
RECURSIVE FullRows(_, _, _)
FullRows(lines, header, options) ==
  IF lines = <<>> THEN <<>>
  ELSE FullKept(ParseVehicleLine(Head(lines), header, options.staleThresholdMs),
                options)
       \o FullRows(Tail(lines), header, options)

Returned(vehicles) == [threw |-> FALSE, vehicles |-> vehicles]
Threw == [threw |-> TRUE, vehicles |-> <<>>]

NonBlank(text) == SelectSeq(text, LAMBDA line : line.kind # "blank")

\* parseGpsFullStream, schemas.ts 588-666
ParseGpsFullStream(text, options) ==
  LET lines == NonBlank(text) IN
  IF Len(lines) < 2 THEN Returned(<<>>)
  ELSE IF \E i \in 1..Len(RequiredColumns) :
            RequiredColumns[i] \notin ColumnsOf(lines[1])
    THEN Threw
  ELSE Returned(FullRows(Tail(lines), lines[1].header, options))

\* parseLiteLine, part_010 129-186
ParseLiteLine(line, format) ==
  IF line.fields < format.minColumns THEN <<>>
  ELSE IF line.vehicleNumber = "" THEN <<>>
  ELSE IF ~ToNumber(line.lat).finite \/ ~ToNumber(line.lon).finite THEN <<>>
  ELSE <<[vehicleNumber |-> line.vehicleNumber,
          route |-> Trim(line.route),
          latitude |-> NormalizeCoordinate(ToNumber(line.lat).n),
          longitude |-> NormalizeCoordinate(ToNumber(line.lon).n),
          speed |-> NormalizeSpeed(IF ToNumber(line.speed).finite
                                     THEN ToNumber(line.speed)
                                     ELSE ToNumber("0")),
          bearing |-> NormalizeBearing(IF ToNumber(line.bearing).finite
                                         THEN ToNumber(line.bearing)
                                         ELSE ToNumber("0")),
          isStale |-> FALSE,
          destination |-> Null]>>

LiteKept(parsed, options) ==
  IF parsed = <<>> THEN <<>>
  ELSE IF /\ options.filterInvalidCoords
          /\ ~IsValidLithuaniaCoord(parsed[1].latitude, parsed[1].longitude)
    THEN <<>>
  ELSE parsed

\* the line loop of parseGpsLiteStream, part_010 92-109
RECURSIVE LiteRows(_, _, _)
LiteRows(lines, format, options) ==
  IF lines = <<>> THEN <<>>
  ELSE LiteKept(ParseLiteLine(Head(lines), format), options)
       \o LiteRows(Tail(lines), format, options)

\* parseGpsLiteStream, part_010 78-113
ParseGpsLiteStream(text, format, options) ==
  Returned(LiteRows(NonBlank(text), format, options))

\* ------------------------------------------------------------------------
\* Feed inputs of the model
\* ------------------------------------------------------------------------
GoodRow ==
  [kind |-> "row", header |-> <<>>, fields |-> 9, vehicleNumber |-> "1001",
   lat |-> "54687157", lon |-> "25279652", age |-> 0, route |-> <<"7", "g">>,
   speed |-> "", bearing |-> ""]
DataLines ==
  {GoodRow,
   [GoodRow EXCEPT !.vehicleNumber = "1002", !.route = <<" ", "7">>],
   [GoodRow EXCEPT !.fields = 2],
   [GoodRow EXCEPT !.vehicleNumber = ""],
   [GoodRow EXCEPT !.lat = "abc"],
   [GoodRow EXCEPT !.lat = "0", !.lon = ""],
   [GoodRow EXCEPT !.age = 600000],
   BlankLine}

GoodHeader == HeaderLine(RequiredColumns)
BadHeader == HeaderLine(<<"Transportas", "Marsrutas", "MasinosNumeris", "Ilguma">>)

SeqsUpTo(S, n) == UNION {[1..k -> S] : k \in 0..n}

\* texts of at most n data lines, with a complete header, with a header that
\* lacks Platuma, or with none
TextsUpTo(n) ==
  {prefix \o body : prefix \in {<<>>, <<GoodHeader>>, <<BadHeader>>},
                    body \in SeqsUpTo(DataLines, n)}

\* the routes table of download n, as parseRoutesContent maps it
Route7G == [id |-> "r7G", shortName |-> <<"7", "G">>,
            longName |-> <<"Stotis", "Centras">>]
Route7 == [id |-> "r7", shortName |-> <<"7">>, longName |-> <<"Ziedas">>]
ArchiveRoutes(n) ==
  IF n % 2 = 1
    THEN <<[key |-> Route7G.shortName, route |-> Route7G],
           [key |-> Route7.shortName, route |-> Route7]>>
    ELSE <<[key |-> Route7.shortName, route |-> Route7]>>

\* ------------------------------------------------------------------------
\* LtTransport.getVehicles (index.ts 318-369)
\* ------------------------------------------------------------------------

\* the URL passed to fetchText, line 330
FeedUrlFromGtfs(config) == config.gtfs.url
FeedUrl(config) == config.gps.url

\* line 324 negated: the city has a live feed
GpsAvailableWhenEnabled(config) == config.gps.enabled
GpsAvailable(config) == config.gps.enabled /\ config.gps.url # Null

GvEnded(q, result) == [q EXCEPT !.pc = "done", !.res = result, !.routes = Absent]

ParseOptions ==
  [staleThresholdMs |-> StaleThresholdMs,
   filterStale |-> client.filterStale,
   filterInvalidCoords |-> client.filterInvalidCoords]

\* the locals of a getVehicles call
GvLocals ==
  [text |-> <<>>,         \* the feed text fetchText returned
   vehicles |-> <<>>,     \* the vehicles decoded (and enriched) so far
   requests |-> <<>>,     \* the URLs the call has requested
   warned |-> FALSE]      \* console.warn was called

\* getVehicles up to `await this.fetchText(...)`
GvCall(r, c) ==
  /\ rd[r].pc \in {"idle", "done"}
  /\ nRead < MaxReads
  /\ nRead' = nRead + 1
  /\ UNCHANGED <<client, now, remote, metaFile, dataFile, tmpFiles, lastSyncTimes,
                 routeCaches, sy, nSync, nBuilt, nFaults, nRemote, hist>>
  /\ LET q == [IdleRead EXCEPT !.op = "getVehicles", !.city = c,
                               !.call = GvLocals] IN
     rd' = [rd EXCEPT ![r] =
       IF c \notin EffectiveCityIds THEN GvEnded(q, "InvalidCityError")
       ELSE IF ~GpsAvailable(GetEffectiveCityConfig(c))
         THEN GvEnded(q, "GpsNotAvailableError")
       ELSE [q EXCEPT !.pc = "fetch",
                      !.call.requests = <<FeedUrl(GetEffectiveCityConfig(c))>>]]

\* getVehicles lines 330-368 once fetchText has answered: `ok` is false when
\* the request failed or the status was not 2xx
GvFetch(r, ok, text) ==
  LET q == rd[r]
      c == q.city
      config == GetEffectiveCityConfig(c)
      full == ParseGpsFullStream(text, ParseOptions)
      lite == ParseGpsLiteStream(text, config.liteFormat, ParseOptions)
      got == [q EXCEPT !.call.text = text]
  IN
  /\ q.pc = "fetch"
  /\ UNCHANGED <<client, now, remote, metaFile, dataFile, tmpFiles, lastSyncTimes,
                 routeCaches, sy, nSync, nRead, nBuilt, nFaults, nRemote, hist>>
  /\ rd' = [rd EXCEPT ![r] =
       IF ~ok \/ q.call.requests[1] = Null THEN GvEnded(q, "TransportNetworkError")
       ELSE IF config.gps.format = "full"
         THEN IF full.threw THEN GvEnded(got, "Error")
              ELSE GvEnded([got EXCEPT !.call.vehicles = full.vehicles], "vehicles")
       ELSE IF config.gps.format = "lite"
         THEN IF ~config.liteFormat.defined
                THEN GvEnded([got EXCEPT !.call.warned = TRUE], "vehicles")
              ELSE IF ~client.autoEnrich
                THEN GvEnded([got EXCEPT !.call.vehicles = lite.vehicles], "vehicles")
              ELSE IF routeCaches[c] # NoCache
                THEN GvEnded([got EXCEPT
                       !.index = routeCaches[c],
                       !.call.vehicles = EnrichVehicles(lite.vehicles,
                          RouteCacheOf(ArchiveRoutes(routeCaches[c].src)))],
                       "vehicles")
              ELSE [got EXCEPT !.pc = "gvroutes", !.call.vehicles = lite.vehicles]
       ELSE GvEnded(got, "vehicles")]

\* getRouteCache line 580 under getVehicles: loadCachedRoutes reads routes.json
GvRoutesLoad(r) ==
  LET q == rd[r] IN
  /\ q.pc = "gvroutes"
  /\ UNCHANGED <<client, now, remote, metaFile, dataFile, tmpFiles, lastSyncTimes,
                 routeCaches, sy, nSync, nRead, nBuilt, nFaults, nRemote, hist>>
  /\ rd' = [rd EXCEPT ![r] = [q EXCEPT !.pc = "gvinstall",
                                       !.routes = LoadCachedFile(q.city, "routes")]]

\* getRouteCache lines 582-589 and getVehicles lines 355-358: with routes the
\* index is built, stored and used; without them the vehicles stay as decoded
GvInstall(r) ==
  LET q == rd[r]
      cache == BuildRouteCache(q.routes, nBuilt + 1)
  IN
  /\ q.pc = "gvinstall"
  /\ UNCHANGED <<client, now, remote, metaFile, dataFile, tmpFiles, lastSyncTimes,
                 sy, nSync, nRead, nFaults, nRemote>>
  /\ IF q.routes # Absent
       THEN /\ routeCaches' = [routeCaches EXCEPT ![q.city] = cache]
            /\ nBuilt' = nBuilt + 1
            /\ hist' = IF q.city \in DOMAIN hist
                          THEN [hist EXCEPT ![q.city].builds = @ + 1] ELSE hist
            /\ rd' = [rd EXCEPT ![r] = GvEnded([q EXCEPT
                        !.index = cache,
                        !.call.vehicles = EnrichVehicles(q.call.vehicles,
                                       RouteCacheOf(ArchiveRoutes(q.routes)))],
                        "vehicles")]
       ELSE /\ rd' = [rd EXCEPT ![r] = GvEnded(q, "vehicles")]
            /\ UNCHANGED <<routeCaches, nBuilt, hist>>

\* ------------------------------------------------------------------------
\* The live feed alone: getVehicles calls of a client constructed with any
\* options, over a cache directory that earlier syncs of panevezys have left
\* empty or holding the snapshot of their last download
\* ------------------------------------------------------------------------
ClientOptions ==
  [autoEnrich : BOOLEAN, filterInvalidCoords : BOOLEAN, filterStale : BOOLEAN]

SyncedHist(n) ==
  [InitHist EXCEPT !.everSynced = TRUE, !.lastEnd = 0, !.lastStart = 0,
                   !.prevOk = TRUE, !.genSnap = n]

FeedInit ==
  /\ client \in ClientOptions
  /\ now = 0
  /\ remote = [c \in BuiltInCities |-> "lm1"]
  /\ tmpFiles = {}
  /\ routeCaches = [c \in Cities |-> NoCache]
  /\ sy = [t \in SyncTasks |-> IdleSync]
  /\ rd = [r \in ReadTasks |-> IdleRead]
  /\ nRead = 0
  /\ nBuilt = 0
  /\ nFaults = 0
  /\ nRemote = 0
  /\ \E n \in 0..MaxSyncCalls :
       LET synced(c) == c = "panevezys" /\ n > 0 IN
       /\ nSync = n
       /\ metaFile = [c \in Cities |->
            IF synced(c) THEN CacheMeta("lm1", n) ELSE MetaAbsent]
       /\ dataFile = [c \in Cities |->
            [f \in DataFileSet |-> IF synced(c) THEN n ELSE Absent]]
       /\ lastSyncTimes = [c \in Cities |-> IF synced(c) THEN 0 ELSE NoTime]
       /\ hist = [c \in BuiltInCities |->
            IF synced(c) THEN SyncedHist(n) ELSE InitHist]

FeedNext ==
  \/ \E r \in ReadTasks, c \in FeedCities : GvCall(r, c)
  \/ \E r \in ReadTasks, ok \in BOOLEAN, text \in TextsUpTo(MaxFeedRows) :
       GvFetch(r, ok, text)
  \/ \E r \in ReadTasks : GvRoutesLoad(r)
  \/ \E r \in ReadTasks : GvInstall(r)

FeedSpec == FeedInit /\ [][FeedNext]_vars

\* ------------------------------------------------------------------------
\* Properties
\* ------------------------------------------------------------------------

\* the cache of city c as it is on disk
StoredMetaOk(c) == metaFile[c].state = "ok"
StoredCoreOk(c) ==
  \A f \in CoreFiles : dataFile[c][f] # Absent /\ dataFile[c][f] # Corrupt
StoredResult(c) ==
  [NoResult EXCEPT !.kind = "ok", !.status = "up-to-date",
                   !.counts = metaFile[c].snap,
                   !.lastModified = metaFile[c].lastModified]

\* task t takes the step that follows the load of the stored metadata
ChecksNow(t) == sy[t].pc = "check" /\ sy'[t].pc # "check"

\* C1: in syncGtfs the 'already current' short-circuit is taken exactly when
\* force is false, stored metadata exists, its token equals the token just
\* probed and that token is not null; the call then returns 'up-to-date'
\* with the stored counts, has issued no download and written no cache
\* file; in every other case the archive download is issued.
C1_ShortCircuit ==
  /\ [][\A t \in SyncTasks : ChecksNow(t) =>
          LET c == sy[t].city
              current == /\ ~sy[t].force
                         /\ StoredMetaOk(c)
                         /\ metaFile[c].lastModified = sy[t].remoteLastModified
                         /\ sy[t].remoteLastModified # Null
          IN IF current
               THEN /\ sy'[t].pc = "done"
                    /\ sy'[t].res = StoredResult(c)
                    /\ sy'[t].downloads = 0
                    /\ metaFile' = metaFile /\ dataFile' = dataFile
               ELSE /\ sy'[t].pc = "download"
                    /\ sy'[t].downloads = 1]_vars
  /\ [](\A t \in SyncTasks :
          /\ sy[t].short = "yes" => sy[t].downloads = 0 /\ ~sy[t].wrote
          /\ sy[t].wrote => sy[t].short = "no" /\ sy[t].downloads = 1)

\* C1 witness: a call has returned through the short-circuit
C1_Witness ==
  \E t \in SyncTasks :
    /\ sy[t].pc = "done" /\ sy[t].short = "yes"
    /\ sy[t].res.status = "up-to-date" /\ sy[t].res.counts > 0

\* C2 (as claimed): every non-forced sync made less than 60 s after the
\* previous sync of the city returned answers 'up-to-date' with the stored
\* counts and issues neither a probe nor a download.
C2_ThrottledAnswersFromCache ==
  \A t \in SyncTasks :
    (sy[t].pc # "idle" /\ ~sy[t].force /\ sy[t].recent) =>
      /\ sy[t].probes = 0
      /\ sy[t].downloads = 0
      /\ sy[t].pc = "done" => sy[t].res = StoredResult(sy[t].city)

\* task t takes the step that follows loadGtfsCache in the throttled branch
ThrottleLoadsNow(t) == sy[t].pc = "throttle" /\ sy'[t].pc # "throttle"

\* C2 (amended): a non-forced sync begun less than 60 s after the BEGINNING
\* of the last call of that city whose syncGtfs returned takes the throttled
\* branch without probing, and when the stored metadata, routes and stops
\* load it answers 'up-to-date' with the stored counts and issues neither a
\* probe nor a download.
C2_ThrottledWhenLoadable ==
  /\ [](\A t \in SyncTasks :
          (sy[t].pc # "idle" /\ ~sy[t].force /\ sy[t].window) =>
             /\ sy[t].throttled
             /\ sy[t].pc = "throttle" => sy[t].probes = 0)
  /\ [][\A t \in SyncTasks :
          (ThrottleLoadsNow(t) /\ StoredMetaOk(sy[t].city)
             /\ StoredCoreOk(sy[t].city)) =>
               /\ sy'[t].pc = "done"
               /\ sy'[t].res = StoredResult(sy[t].city)
               /\ sy'[t].probes = 0
               /\ sy'[t].downloads = 0]_vars

\* C2 witness: a throttled call has answered from the cache some time after
\* the sync before it
C2_Witness ==
  \E t \in SyncTasks :
    /\ sy[t].pc = "done" /\ ~sy[t].force /\ sy[t].window
    /\ sy[t].loadable = "yes" /\ ~sy[t].immediate
    /\ sy[t].res.status = "up-to-date" /\ sy[t].probes = 0

\* the second of two sync calls made in immediate succession: the call
\* before it returned a result, no time has passed since, and the remote
\* token has not changed since that call began
SecondOfTwo(t) ==
  /\ sy[t].pc # "idle"
  /\ sy[t].city \in BuiltInCities
  /\ ~sy[t].force
  /\ sy[t].immediate
  /\ ~hist[sy[t].city].remChangedPrev

CacheRewritten(c, n, lm) ==
  /\ metaFile[c] = CacheMeta(lm, n)
  /\ \A f \in DataFileSet : dataFile[c][f] = n

\* C4: a forced sync never answers from the throttle or the short-circuit:
\* it probes, and once probed downloads; when it returns, its status is
\* 'updated' and every cache file of the city has been rewritten.
C4_ForceAlwaysDownloads ==
  \A t \in SyncTasks :
    (sy[t].pc # "idle" /\ sy[t].force /\ sy[t].city \in BuiltInCities) =>
      /\ sy[t].probes = 1
      /\ sy[t].short # "yes"
      /\ sy[t].pc \notin {"head", "check", "done"} => sy[t].downloads = 1
      /\ (sy[t].pc = "done" /\ sy[t].res.kind = "ok") =>
            /\ sy[t].res.status = "updated"
            /\ sy[t].downloads = 1
            /\ CacheRewritten(sy[t].city, sy[t].res.counts,
                              sy[t].res.lastModified)

\* C4 witness: a forced sync made at once after a sync, with the remote
\* token unchanged and not null, has returned 'updated'
C4_Witness ==
  \E t \in SyncTasks :
    /\ sy[t].pc = "done" /\ sy[t].force /\ sy[t].window /\ sy[t].immediate
    /\ sy[t].city \in BuiltInCities
    /\ ~hist[sy[t].city].remChangedPrev
    /\ sy[t].res.status = "updated" /\ sy[t].res.lastModified # Null

\* C5: the cache that loadGtfsCache returns is made of the metadata and
\* entities of one single sync.
C5_ReaderSeesOneSnapshot ==
  \A r \in ReadTasks :
    (rd[r].pc = "done" /\ rd[r].res = "cache") => Cardinality(rd[r].snaps) = 1

\* C6: once the temporary archive file has been created, it is gone when
\* syncGtfs returns or throws.
C6_TempFileRemoved ==
  \A t \in SyncTasks :
    (sy[t].pc = "done" /\ sy[t].tempMade) => sy[t].tempPath \notin tmpFiles

\* C7: a sync call that fails throws a GtfsSyncError of the synced city,
\* and nothing else.
C7_OnlyGtfsSyncError ==
  \A t \in SyncTasks :
    (sy[t].pc = "done" /\ sy[t].res.kind = "error") =>
      /\ sy[t].res.err = "GtfsSyncError"
      /\ sy[t].res.errCity = sy[t].city

\* C8: while no sync of the city has completed successfully, getRoutes and
\* getStops throw SyncRequiredError and return no collection.
C8_NotSyncedThrows ==
  \A r \in ReadTasks :
    (rd[r].pc = "done" /\ rd[r].op \in {"getRoutes", "getStops"}
       /\ ~rd[r].synced) => rd[r].res = "SyncRequiredError"

\* C9: after a sync has returned 'updated' the client holds no index (it is
\* rebuilt on the next access, not in sync), or one built from the routes
\* that sync persisted; never one built from the routes before it.
C9_IndexFromNewRoutes ==
  \A t \in SyncTasks :
    (sy[t].pc = "done" /\ sy[t].res.status = "updated") =>
      \/ routeCaches[sy[t].city] = NoCache
      \/ routeCaches[sy[t].city].src = sy[t].res.counts

\* C10: the index is built at most once per snapshot generation, and it is
\* discarded only by a sync that returns 'updated'.
C10_OnceBuiltPerGeneration ==
  /\ [](\A c \in DOMAIN hist : hist[c].builds <= 1)
  /\ [][\A c \in DOMAIN routeCaches :
          (routeCaches[c] # NoCache /\ routeCaches'[c] = NoCache) =>
             \E t \in SyncTasks :
               /\ sy[t].pc # "done" /\ sy'[t].pc = "done"
               /\ sy'[t].city = c
               /\ sy'[t].res.status = "updated"]_vars

\* ------------------------------------------------------------------------
\* The decoders called directly, once, on any text and with any options
\* ------------------------------------------------------------------------
DecoderOptions ==
  [staleThresholdMs : {StaleThresholdMs}, filterStale : BOOLEAN,
   filterInvalidCoords : BOOLEAN]

\* parseGpsFullStream(text, city, options)
ParseFullCall(r, text, options) ==
  LET out == ParseGpsFullStream(text, options) IN
  /\ rd[r].pc = "idle"
  /\ rd' = [rd EXCEPT ![r] =
       [IdleRead EXCEPT !.op = "parseGpsFullStream", !.pc = "done",
                        !.call = [text |-> text, options |-> options,
                                  vehicles |-> out.vehicles],
                        !.res = IF out.threw THEN "Error" ELSE "vehicles"]]
  /\ UNCHANGED <<client, now, remote, metaFile, dataFile, tmpFiles, lastSyncTimes,
                 routeCaches, sy, nSync, nRead, nBuilt, nFaults, nRemote, hist>>

\* parseGpsLiteStream(text, cityId, format, options)
ParseLiteCall(r, text, options) ==
  LET out == ParseGpsLiteStream(text, PanevezysLiteFormat, options) IN
  /\ rd[r].pc = "idle"
  /\ rd' = [rd EXCEPT ![r] =
       [IdleRead EXCEPT !.op = "parseGpsLiteStream", !.pc = "done",
                        !.call = [text |-> text, options |-> options,
                                  vehicles |-> out.vehicles],
                        !.res = IF out.threw THEN "Error" ELSE "vehicles"]]
  /\ UNCHANGED <<client, now, remote, metaFile, dataFile, tmpFiles, lastSyncTimes,
                 routeCaches, sy, nSync, nRead, nBuilt, nFaults, nRemote, hist>>

DecodeNext ==
  \/ \E r \in ReadTasks :
       /\ rd[r].pc = "idle"
       /\ \E text \in TextsUpTo(MaxRows), options \in DecoderOptions :
            ParseFullCall(r, text, options)
  \/ \E r \in ReadTasks :
       /\ rd[r].pc = "idle"
       /\ \E text \in TextsUpTo(MaxRows), options \in DecoderOptions :
            ParseLiteCall(r, text, options)

DecodeSpec == Init /\ [][DecodeNext]_vars

\* ------------------------------------------------------------------------
\* The enrichment functions called directly, once, on any route string and
\* any routes map
\* ------------------------------------------------------------------------
Route7gLower == [id |-> "r7g", shortName |-> <<"7", "g">>, longName |-> <<>>]
RouteEntries ==
  {[key |-> rt.shortName, route |-> rt] : rt \in {Route7G, Route7gLower, Route7}}

\* the routes maps of at most n entries
RouteMapsUpTo(n) ==
  {m \in SeqsUpTo(RouteEntries, n) :
     \A i, j \in 1..Len(m) : m[i].key = m[j].key => i = j}

Strings == SeqsUpTo(Alphabet, MaxLen)

\* a decoded vehicle on route `route` whose destination is `destination`
VehicleOn(route, destination) ==
  [vehicleNumber |-> "1001", route |-> route,
   latitude |-> NormalizeCoordinate(ToNumber("54687157").n),
   longitude |-> NormalizeCoordinate(ToNumber("25279652").n),
   isStale |-> FALSE, destination |-> destination]

\* enrichVehicle(vehicle, buildRouteCache(routes))
EnrichCall(r, vehicle, routes) ==
  LET out == EnrichVehicle(vehicle, RouteCacheOf(routes)) IN
  /\ rd[r].pc = "idle"
  /\ rd' = [rd EXCEPT ![r] =
       [IdleRead EXCEPT !.op = "enrichVehicle", !.pc = "done",
                        !.call = [arg |-> <<vehicle>>, routesMap |-> routes,
                                  vehicles |-> <<out.value>>,
                                  same |-> out.same],
                        !.res = "vehicle"]]
  /\ UNCHANGED <<client, now, remote, metaFile, dataFile, tmpFiles, lastSyncTimes,
                 routeCaches, sy, nSync, nRead, nBuilt, nFaults, nRemote, hist>>

\* matchRoute(gpsRoute, buildRouteCache(routes))
MatchCall(r, gpsRoute, routes) ==
  /\ rd[r].pc = "idle"
  /\ rd' = [rd EXCEPT ![r] =
       [IdleRead EXCEPT !.op = "matchRoute", !.pc = "done",
                        !.call = [gpsRoute |-> gpsRoute, routesMap |-> routes,
                                  match |-> MatchRoute(gpsRoute,
                                              RouteCacheOf(routes))],
                        !.res = "match"]]
  /\ UNCHANGED <<client, now, remote, metaFile, dataFile, tmpFiles, lastSyncTimes,
                 routeCaches, sy, nSync, nRead, nBuilt, nFaults, nRemote, hist>>

EnrichNext ==
  \/ \E r \in ReadTasks :
       /\ rd[r].pc = "idle"
       /\ \E route \in Strings, destination \in {Null, "", "Oro uostas"},
             routes \in RouteMapsUpTo(MaxRoutes) :
            EnrichCall(r, VehicleOn(route, destination), routes)
  \/ \E r \in ReadTasks :
       /\ rd[r].pc = "idle"
       /\ \E gpsRoute \in Strings, routes \in RouteMapsUpTo(MaxRoutes) :
            MatchCall(r, gpsRoute, routes)

EnrichSpec == Init /\ [][EnrichNext]_vars

\* ------------------------------------------------------------------------
\* Two cities at once: one task syncs vilnius, another syncs panevezys, and
\* a third calls getVehicles for panevezys, each of them once, interleaved at
\* every await
\* ------------------------------------------------------------------------
CityTasks == {"s1", "s2"}
TaskCity == [s1 |-> "vilnius", s2 |-> "panevezys"]

CityInit ==
  /\ client = DefaultClient
  /\ now = 0
  /\ remote = [c \in BuiltInCities |-> "lm1"]
  /\ metaFile = [c \in Cities |-> MetaAbsent]
  /\ dataFile = [c \in Cities |-> [f \in DataFileSet |-> Absent]]
  /\ tmpFiles = {}
  /\ lastSyncTimes = [c \in Cities |-> NoTime]
  /\ routeCaches = [c \in Cities |-> NoCache]
  /\ sy = [t \in CityTasks |-> IdleSync]
  /\ rd = [r \in ReadTasks |-> IdleRead]
  /\ nSync = 0
  /\ nRead = 0
  /\ nBuilt = 0
  /\ nFaults = 0
  /\ nRemote = 0
  /\ hist = [c \in BuiltInCities |-> InitHist]

CityNext ==
  \/ \E t \in CityTasks, force \in BOOLEAN :
       sy[t].pc = "idle" /\ SyncCall(t, TaskCity[t], force)
  \/ \E t \in CityTasks : SyncHead(t)
  \/ \E t \in CityTasks : SyncCheck(t)
  \/ \E t \in CityTasks : SyncDownload(t)
  \/ \E t \in CityTasks : SyncTempWrite(t)
  \/ \E t \in CityTasks : SyncExtract(t)
  \/ \E t \in CityTasks : SyncCleanup(t)
  \/ \E t \in CityTasks : SyncPersist(t)
  \/ \E t \in CityTasks : SyncReturn(t)
  \/ \E r \in ReadTasks : rd[r].pc = "idle" /\ GvCall(r, TaskCity.s2)
  \/ \E r \in ReadTasks, ok \in BOOLEAN : GvFetch(r, ok, <<GoodRow>>)
  \/ \E r \in ReadTasks : GvRoutesLoad(r)
  \/ \E r \in ReadTasks : GvInstall(r)

CitySpec == CityInit /\ [][CityNext]_vars

\* what the program keeps for city d is the same before and after the step
CityUntouched(d) ==
  /\ metaFile'[d] = metaFile[d] /\ dataFile'[d] = dataFile[d]
  /\ lastSyncTimes'[d] = lastSyncTimes[d] /\ routeCaches'[d] = routeCaches[d]
  /\ {p \in tmpFiles' : p.city = d} = {p \in tmpFiles : p.city = d}

\* task t holds a temporary archive path it has not yet cleaned up
HoldsTemp(t) == sy[t].pc \in {"tempwrite", "extract", "cleanup"}

\* C14: operations on different cities do not interfere: a step of a sync
\* or of a getVehicles call for one city leaves every other city's cache
\* files, temporary archives, throttle timestamp and in-memory index as they
\* were; two syncs of different cities never hold the same temporary path,
\* and the archive a sync is extracting is still there.
C14_CitiesDoNotInterfere ==
  /\ [][/\ \A t \in CityTasks : sy'[t] # sy[t] =>
             \A d \in Cities \ {sy'[t].city} : CityUntouched(d)
        /\ \A r \in ReadTasks : rd'[r] # rd[r] =>
             \A d \in Cities \ {rd'[r].city} : CityUntouched(d)]_vars
  /\ [](\A t \in CityTasks :
          /\ sy[t].pc \in {"extract", "cleanup"} => sy[t].tempPath \in tmpFiles
          /\ \A u \in CityTasks \ {t} :
               (HoldsTemp(t) /\ HoldsTemp(u)) => sy[t].tempPath # sy[u].tempPath)

\* C14 witness: the two syncs are extracting their archives at the same
\* moment while the getVehicles call waits for the routes of its city
C14_Witness ==
  /\ sy["s1"].pc = "extract" /\ sy["s2"].pc = "extract"
  /\ sy["s1"].city # sy["s2"].city
  /\ \E r \in ReadTasks : rd[r].pc = "gvroutes"

\* C13: a sync of a city registered through customCities probes the GTFS URL
\* of that city's effective configuration; unless it is throttled, a
\* completed call has issued the probe and has not failed for want of a
\* built-in configuration.
C13_CustomCitySyncProbes ==
  \A t \in SyncTasks :
    (sy[t].pc = "done" /\ sy[t].city \in CustomCities /\ ~sy[t].throttled) =>
      /\ sy[t].probes >= 1
      /\ ~(sy[t].res.kind = "error" /\ sy[t].res.err = "TypeError")

\* ------------------------------------------------------------------------
\* loadGtfsCache alone, over every cache directory that syncs of the city can
\* leave: the snapshot of download `base` (none when 0), over which the first
\* k saves of the next download have been made, the last of them possibly
\* torn
\* ------------------------------------------------------------------------
LoadInit ==
  /\ client = DefaultClient
  /\ now = 0
  /\ remote = [c \in BuiltInCities |-> "lm1"]
  /\ tmpFiles = {}
  /\ routeCaches = [c \in Cities |-> NoCache]
  /\ sy = [t \in SyncTasks |-> IdleSync]
  /\ rd = [r \in ReadTasks |-> IdleRead]
  /\ nRead = 0
  /\ nBuilt = 0
  /\ nFaults = 0
  /\ nRemote = 0
  /\ lastSyncTimes = [c \in Cities |-> NoTime]
  /\ \E base \in 0..(MaxSyncCalls - 1), k \in 0..NumPersistSteps,
        torn \in BOOLEAN, city \in SyncedCities :
       LET saved(i) == i <= k
           tornAt(i) == torn /\ i = k
       IN
       /\ nSync = IF k > 0 THEN base + 1 ELSE base
       /\ metaFile = [c \in Cities |->
            IF c # city THEN MetaAbsent
            ELSE IF tornAt(1) THEN MetaCorrupt
            ELSE IF saved(1) THEN CacheMeta("lm1", base + 1)
            ELSE IF base > 0 THEN CacheMeta("lm1", base)
            ELSE MetaAbsent]
       /\ dataFile = [c \in Cities |-> [f \in DataFileSet |->
            LET i == 1 + CHOOSE j \in 1..Len(DataFiles) : DataFiles[j] = f IN
            IF c # city THEN Absent
            ELSE IF tornAt(i) THEN Corrupt
            ELSE IF saved(i) THEN base + 1
            ELSE base]]
       /\ hist = [c \in BuiltInCities |->
            IF c = city /\ base > 0 THEN SyncedHist(base) ELSE InitHist]

LoadNext ==
  \/ \E r \in ReadTasks, c \in SyncedCities : ReadCall(r, "loadGtfsCache", c)
  \/ \E r \in ReadTasks : LoadStep(r)

LoadSpec == LoadInit /\ [][LoadNext]_vars

\* ------------------------------------------------------------------------
\* Properties of the cache loader
\* ------------------------------------------------------------------------

\* the downloads that the readable files of city c come from
ReadableSnaps(c) ==
  {metaFile[c].snap} \cup
  {dataFile[c][f] : f \in {g \in DataFileSet :
                             dataFile[c][g] # Absent /\ dataFile[c][g] # Corrupt}}

\* C12: loadGtfsCache returns a cache if and only if the metadata record,
\* the routes blob and the stops blob are all present and readable; it then
\* carries every entity that is readable, an extended entity that is absent
\* (or unreadable) contributes an empty collection, and no error is raised.
C12_CacheIffCoreReadable ==
  \A r \in ReadTasks :
    (rd[r].op = "loadGtfsCache" /\ rd[r].pc = "done") =>
      LET c == rd[r].city IN
      /\ rd[r].res \in {"cache", "null"}
      /\ rd[r].res = "cache" <=> (StoredMetaOk(c) /\ StoredCoreOk(c))
      /\ rd[r].res = "cache" => rd[r].snaps = ReadableSnaps(c)

\* C12 witness: a cache was returned although trips.json and the entities
\* after it are not on disk
C12_Witness ==
  \E r \in ReadTasks :
    /\ rd[r].op = "loadGtfsCache" /\ rd[r].pc = "done" /\ rd[r].res = "cache"
    /\ dataFile[rd[r].city]["trips"] = Absent
    /\ dataFile[rd[r].city]["stop_times"] = Absent

\* ------------------------------------------------------------------------
\* Properties of the live feed
\* ------------------------------------------------------------------------

\* the static-schedule archive URLs of the configured cities
GtfsUrls == {GetEffectiveCityConfig(c).gtfs.url : c \in EffectiveCityIds}

\* a getVehicles call of task r has returned a list
GvReturned(r) ==
  rd[r].op = "getVehicles" /\ rd[r].pc = "done" /\ rd[r].res = "vehicles"

NoLiveFeed(c) ==
  /\ c \in EffectiveCityIds
  /\ \/ ~GetEffectiveCityConfig(c).gps.enabled
     \/ GetEffectiveCityConfig(c).gps.url = Null

\* C15: for a city configured with no live feed (GPS disabled or feed URL
\* null) getVehicles throws GpsNotAvailableError, never a network error and
\* never a list, and does so before any network request is issued.
C15_NoFeedThrowsBeforeRequest ==
  \A r \in ReadTasks :
    (rd[r].op = "getVehicles" /\ NoLiveFeed(rd[r].city)) =>
      /\ rd[r].pc = "done"
      /\ rd[r].res = "GpsNotAvailableError"
      /\ rd[r].call.requests = <<>>
      /\ rd[r].call.vehicles = <<>>

\* C15 witness: a call for the city whose feed is enabled but has a null URL
\* has thrown
C15_Witness ==
  \E r \in ReadTasks :
    /\ rd[r].op = "getVehicles" /\ rd[r].city = "klaipeda"
    /\ GetEffectiveCityConfig("klaipeda").gps.enabled
    /\ rd[r].pc = "done" /\ rd[r].res = "GpsNotAvailableError"

\* the header line of the text lacks a mandatory column
HeaderLacksColumn(text) ==
  /\ NonBlank(text) # <<>>
  /\ \E i \in 1..Len(RequiredColumns) :
       RequiredColumns[i] \notin ColumnsOf(NonBlank(text)[1])

\* C16: a getVehicles call ends with a complete decoded list or with one
\* thrown error; a structural or configuration problem (lite format without
\* descriptor, unrecognized feed format, header without a mandatory column)
\* is signalled by an error, so a call that returned a list had none.
C16_StructuralProblemThrows ==
  \A r \in ReadTasks :
    GvReturned(r) =>
      LET config == GetEffectiveCityConfig(rd[r].city) IN
      /\ config.gps.format \in {"full", "lite"}
      /\ config.gps.format = "lite" => config.liteFormat.defined
      /\ config.gps.format = "full" => ~HeaderLacksColumn(rd[r].call.text)

\* ------------------------------------------------------------------------
\* Properties of the decoders
\* ------------------------------------------------------------------------

\* C17: parseGpsFullStream on a text whose header line lacks a mandatory
\* column throws and returns no record, however many data rows follow the
\* header (none included).
C17_BadHeaderThrows ==
  \A r \in ReadTasks :
    (/\ rd[r].op = "parseGpsFullStream" /\ rd[r].pc = "done"
     /\ HeaderLacksColumn(rd[r].call.text)) =>
       rd[r].res = "Error" /\ rd[r].call.vehicles = <<>>

\* what decoding each row on its own gives, the rows that give nothing left
\* out, in the order of the rows
PerRow(rows, Decode(_)) ==
  LET passing == SelectSeq([i \in 1..Len(rows) |-> i],
                           LAMBDA i : Decode(rows[i]) # <<>>)
  IN [j \in 1..Len(passing) |-> Decode(rows[passing[j]])[1]]

\* C18: in both decoders a row that fails validation is left out without a
\* throw, and the output is exactly the rows that pass validation and the
\* enabled filters, in input order: one bad row neither aborts the feed nor
\* drops another row.
C18_BadRowsSkipped ==
  \A r \in ReadTasks :
    LET q == rd[r]
        lines == NonBlank(q.call.text)
    IN
    /\ (q.op = "parseGpsFullStream" /\ q.pc = "done" /\ Len(lines) >= 2
        /\ ~HeaderLacksColumn(q.call.text)) =>
          /\ q.res = "vehicles"
          /\ q.call.vehicles =
               PerRow(Tail(lines),
                      LAMBDA line : FullKept(ParseVehicleLine(line, lines[1].header,
                                      q.call.options.staleThresholdMs),
                                      q.call.options))
    /\ (q.op = "parseGpsLiteStream" /\ q.pc = "done") =>
          /\ q.res = "vehicles"
          /\ q.call.vehicles =
               PerRow(lines,
                      LAMBDA line : LiteKept(ParseLiteLine(line, PanevezysLiteFormat),
                                             q.call.options))

\* C18 witness: the header-mapped decoder has returned the first and the
\* third row of a text whose second row fails validation
C18_Witness ==
  \E r \in ReadTasks :
    /\ rd[r].op = "parseGpsFullStream" /\ rd[r].pc = "done"
    /\ Len(rd[r].call.text) = 4 /\ rd[r].call.text[3].lat = "abc"
    /\ Len(rd[r].call.vehicles) = 2
    /\ rd[r].call.vehicles[1].vehicleNumber = "1002"
    /\ rd[r].call.vehicles[2].vehicleNumber = "1001"

\* ------------------------------------------------------------------------
\* Properties of the enrichment functions
\* ------------------------------------------------------------------------

\* an enrichVehicle call of task r has returned
Enriched(r) == rd[r].op = "enrichVehicle" /\ rd[r].pc = "done"
HasDestination(vehicle) ==
  vehicle.destination # Null /\ vehicle.destination # ""

\* C19 (as claimed): when the destination is null or empty, enrichVehicle
\* returns a new record, distinct from its argument, with the destination
\* of the match when the route matches and the destination unchanged when
\* it does not; the argument itself is returned only when its destination
\* is already non-empty.
C19_NewRecordUnlessDestination ==
  \A r \in ReadTasks :
    Enriched(r) =>
      LET vehicle == rd[r].call.arg[1]
          found == MatchRoute(vehicle.route, RouteCacheOf(rd[r].call.routesMap))
      IN
      /\ rd[r].call.same <=> HasDestination(vehicle)
      /\ rd[r].call.vehicles[1] =
           IF ~HasDestination(vehicle) /\ found.matched
             THEN [vehicle EXCEPT !.destination = found.destination]
             ELSE vehicle

\* C19 (amended): when the destination is null or empty and the route
\* matches, enrichVehicle returns a new record, distinct from its argument,
\* with the destination of the match; when no route matches, or when the
\* destination is already non-empty, the argument itself is returned.
C19_NewRecordOnlyOnMatch ==
  \A r \in ReadTasks :
    Enriched(r) =>
      LET vehicle == rd[r].call.arg[1]
          found == MatchRoute(vehicle.route, RouteCacheOf(rd[r].call.routesMap))
      IN
      /\ rd[r].call.same <=> (HasDestination(vehicle) \/ ~found.matched)
      /\ rd[r].call.vehicles[1] =
           IF ~HasDestination(vehicle) /\ found.matched
             THEN [vehicle EXCEPT !.destination = found.destination]
             ELSE vehicle

\* C19 witness: a vehicle without destination whose route is in no map came
\* back as the very object that was passed
C19_Witness ==
  \E r \in ReadTasks :
    /\ Enriched(r) /\ rd[r].call.arg[1].destination = Null
    /\ rd[r].call.arg[1].route = <<"7", "g">> /\ rd[r].call.routesMap = <<>>
    /\ rd[r].call.same

\* the last entry of a routes map whose key is K after upper-casing
LastFolded(m, K) ==
  CHOOSE i \in 1..Len(m) :
    /\ ToUpperCase(m[i].key) = K
    /\ \A j \in (i + 1)..Len(m) : ToUpperCase(m[j].key) # K

\* C20: matchRoute trims its input; a blank input gives no match; otherwise
\* the result comes from the route stored under the exactly equal key when
\* there is one, else from the route stored under the upper-cased input in
\* the normalized map, else there is no match.  An exact hit goes before a
\* case-folded one, and a key that is neither equal nor equal after
\* upper-casing never matches.
C20_ExactThenFolded ==
  \A r \in ReadTasks :
    (rd[r].op = "matchRoute" /\ rd[r].pc = "done") =>
      LET m == rd[r].call.routesMap
          trimmed == Trim(rd[r].call.gpsRoute)
          exact == {i \in 1..Len(m) : m[i].key = trimmed}
          folded == {i \in 1..Len(m) :
                       ToUpperCase(m[i].key) = ToUpperCase(trimmed)}
      IN
      /\ (\A i \in 1..Len(rd[r].call.gpsRoute) : rd[r].call.gpsRoute[i] = " ")
           => rd[r].call.match = NoMatch
      /\ trimmed # <<>> =>
           rd[r].call.match =
             IF exact # {}
               THEN ExtractEnrichment(m[CHOOSE i \in exact : TRUE].route)
             ELSE IF folded # {}
               THEN ExtractEnrichment(m[LastFolded(m, ToUpperCase(trimmed))].route)
             ELSE NoMatch
      /\ rd[r].call.match.matched => (exact # {} \/ folded # {})

\* C20 witness: with "7G" and "7g" both in the map, "7g" stored later, the
\* input "7G " got the route stored under "7G", not the case-folded one
C20_Witness ==
  \E r \in ReadTasks :
    /\ rd[r].op = "matchRoute" /\ rd[r].pc = "done"
    /\ rd[r].call.gpsRoute = <<"7", "G", " ">>
    /\ Len(rd[r].call.routesMap) = 2
    /\ rd[r].call.routesMap[2].key = <<"7", "g">>
    /\ rd[r].call.match.matched /\ rd[r].call.match.destination = "Centras"

\* ------------------------------------------------------------------------
\* The routes table (src/unnamed/part_003, parseRoutesContent)
\* ------------------------------------------------------------------------
MaxTableRows == 2

\* the fields of a routes.txt row between its commas.  The header names
\* route_id, route_short_name, route_long_name and route_type; the colours
\* and the vehicle type of a route are not followed.
RouteIdFields == {<<>>, <<"7">>, <<"g">>}
RouteNameFields == {<<>>, <<"7">>, <<"7", " ">>}
RouteLongNames == {<<"Stotis", "Centras">>, <<"Ziedas">>}
RouteTypeFields == {"3", "abc"}
RouteRows ==
  [route_id : RouteIdFields, route_short_name : RouteNameFields,
   route_long_name : RouteLongNames, route_type : RouteTypeFields]

\* parseCSVLine and buildRowObject: every field is trimmed
RowObject(row) ==
  [row EXCEPT !.route_id = Trim(@), !.route_short_name = Trim(@)]

\* gtfsRouteSchema.safeParse(rowObject).success
RouteRowValid(rowObject) ==
  /\ Len(rowObject.route_id) >= 1
  /\ Len(rowObject.route_short_name) >= 1
  /\ ToNumber(rowObject.route_type).finite

\* cleanTextField: trim (control characters are not in the alphabet)
CleanTextField(text) == IF text = <<>> THEN <<>> ELSE Trim(text)

\* routeObj of lines 134-141
RouteObj(validated) ==
  [id |-> validated.route_id,
   shortName |-> CleanTextField(validated.route_short_name),
   longName |-> validated.route_long_name]

\* the loop of lines 116-152 over the data lines
RECURSIVE RoutesOfRows(_, _)
RoutesOfRows(rows, routes) ==
  IF rows = <<>> THEN routes
  ELSE LET rowObject == RowObject(Head(rows)) IN
       IF ~RouteRowValid(rowObject) THEN RoutesOfRows(Tail(rows), routes)
       ELSE LET routeObj == RouteObj(rowObject) IN
            RoutesOfRows(Tail(rows),
              MapSet(MapSet(routes, routeObj.shortName, routeObj),
                     routeObj.id, routeObj))

\* parseRoutesContent: `rows` are the non-blank lines after the header line
\* (content without a second line gives an empty map)
ParseRoutesContent(rows) ==
  IF Len(rows) + 1 < 2 THEN <<>> ELSE RoutesOfRows(rows, <<>>)

\* parseRoutesContent called directly, once, on any table
ParseRoutesCall(r, rows) ==
  /\ rd[r].pc = "idle"
  /\ rd' = [rd EXCEPT ![r] =
       [IdleRead EXCEPT !.op = "parseRoutesContent", !.pc = "done",
                        !.call = [rows |-> rows,
                                  routesMap |-> ParseRoutesContent(rows)],
                        !.res = "routes"]]
  /\ UNCHANGED <<client, now, remote, metaFile, dataFile, tmpFiles, lastSyncTimes,
                 routeCaches, sy, nSync, nRead, nBuilt, nFaults, nRemote, hist>>

TableNext ==
  \E r \in ReadTasks :
    /\ rd[r].pc = "idle"
    /\ \E rows \in SeqsUpTo(RouteRows, MaxTableRows) : ParseRoutesCall(r, rows)

TableSpec == Init /\ [][TableNext]_vars

\* C21: after parsing a routes table, for every accepted row the map
\* resolves both that row's short name and that row's id to the route built
\* from that same row, whatever the table (rows sharing a short name, an id
\* equal to another row's short name).
C21_BothKeysResolveToRow ==
  \A r \in ReadTasks :
    (rd[r].op = "parseRoutesContent" /\ rd[r].pc = "done") =>
      LET rows == rd[r].call.rows
          m == rd[r].call.routesMap
      IN \A i \in 1..Len(rows) :
           RouteRowValid(RowObject(rows[i])) =>
             LET routeObj == RouteObj(RowObject(rows[i])) IN
             /\ MapHas(m, routeObj.shortName)
             /\ MapGet(m, routeObj.shortName) = routeObj
             /\ MapHas(m, routeObj.id)
             /\ MapGet(m, routeObj.id) = routeObj

\* ------------------------------------------------------------------------
\* The decoders called directly, once, on feeds that carry speed and bearing
\* ------------------------------------------------------------------------
MaxMotionRows == 1

\* a header that names Greitis and Azimutas after the mandatory columns
MotionHeader == HeaderLine(RequiredColumns \o <<"Greitis", "Azimutas">>)

\* rows with and without a position inside the bounding box, long enough for
\* every column or for the mandatory ones only, whose speed and bearing
\* fields are empty, not numbers, out of range or in range
MotionLines ==
  {[GoodRow EXCEPT !.speed = speed, !.bearing = bearing, !.lat = lat,
                   !.fields = fields] :
     speed \in {"", "abc", "-5", "90"},
     bearing \in {"", "abc", "-90", "360", "400"},
     lat \in {"54687157", "0"},
     fields \in {9, 5}}

MotionTexts(n) ==
  {prefix \o body : prefix \in {<<>>, <<GoodHeader>>, <<MotionHeader>>},
                    body \in SeqsUpTo(MotionLines, n)}

MotionNext ==
  \/ \E r \in ReadTasks :
       /\ rd[r].pc = "idle"
       /\ \E text \in MotionTexts(MaxMotionRows), options \in DecoderOptions :
            ParseFullCall(r, text, options)
  \/ \E r \in ReadTasks :
       /\ rd[r].pc = "idle"
       /\ \E text \in MotionTexts(MaxMotionRows), options \in DecoderOptions :
            ParseLiteCall(r, text, options)

MotionSpec == Init /\ [][MotionNext]_vars

\* a decoder call of task r has returned
Decoded(r) ==
  /\ rd[r].op \in {"parseGpsFullStream", "parseGpsLiteStream"}
  /\ rd[r].pc = "done" /\ rd[r].res = "vehicles"

\* C22: every vehicle record returned by either decoder has its bearing in
\* [0, 360) and a speed that is not negative, and, when the coordinate
\* filter is enabled, a latitude and longitude inside the bounding box.
C22_RecordsNormalized ==
  \A r \in ReadTasks :
    Decoded(r) =>
      \A i \in 1..Len(rd[r].call.vehicles) :
        LET vehicle == rd[r].call.vehicles[i] IN
        /\ vehicle.bearing >= 0 /\ vehicle.bearing < 360
        /\ vehicle.speed >= 0
        /\ rd[r].call.options.filterInvalidCoords =>
             IsValidLithuaniaCoord(vehicle.latitude, vehicle.longitude)

\* C22 witness: the offset-mapped decoder, its coordinate filter off, has
\* returned a vehicle outside the box whose speed field was -5 and whose
\* bearing field was -90, with speed 0 and bearing 270
C22_Witness ==
  \E r \in ReadTasks :
    /\ Decoded(r) /\ rd[r].op = "parseGpsLiteStream"
    /\ ~rd[r].call.options.filterInvalidCoords
    /\ Len(rd[r].call.text) = 1
    /\ rd[r].call.text[1].speed = "-5" /\ rd[r].call.text[1].bearing = "-90"
    /\ rd[r].call.text[1].lat = "0"
    /\ Len(rd[r].call.vehicles) = 1
    /\ rd[r].call.vehicles[1].speed = 0
    /\ rd[r].call.vehicles[1].bearing = 270

\* the row with every speed or bearing field that the schema rejects
\* replaced by an empty one
Defaulted(line, header) ==
  [line EXCEPT !.speed = IF GreitisValid(line, header) THEN @ ELSE "",
               !.bearing = IF AzimutasValid(line, header) THEN @ ELSE ""]

\* C23: in the header-mapped decoder a row whose speed or bearing field is
\* absent or invalid and whose mandatory fields are valid still gives a
\* record, with the affected field 0: the output is what the rows give when
\* every invalid speed or bearing field is read as absent.
C23_InvalidMotionDefaultsToZero ==
  \A r \in ReadTasks :
    LET q == rd[r]
        lines == NonBlank(q.call.text)
    IN
    (q.op = "parseGpsFullStream" /\ q.pc = "done" /\ Len(lines) >= 2
       /\ ~HeaderLacksColumn(q.call.text)) =>
         q.call.vehicles =
           PerRow(Tail(lines),
                  LAMBDA line :
                    FullKept(ParseVehicleLine(Defaulted(line, lines[1].header),
                                              lines[1].header,
                                              q.call.options.staleThresholdMs),
                             q.call.options))

\* ------------------------------------------------------------------------
\* The measurement time of a row of the header-mapped decoder
\* (schemas.ts 771-781, part_002 31-45), computed by two callers, each once,
\* at any reading of the wall clock around a midnight
\* ------------------------------------------------------------------------
TimeTasks == {"r1", "r2"}
DayMs == SecondsPerDay * 1000

\* readings of Date.now(): one second before a midnight and one second
\* after it (local time is taken to be UTC)
Clocks == {DayMs - 1000, DayMs + 1000}

\* the serverTime option: the instant the feed was fetched
FetchTimes == {DayMs - 1000}

\* the MatavimoLaikas field of a row: no such column in the header
\* (Undefined), or the raw text of the field
TimeFields == {Undefined, "", "0", "-5", "86390", "90000", "abc"}

\* MatavimoLaikas: z.coerce.number().optional()
TimeFieldValid(raw) == raw = Undefined \/ ToNumber(raw).finite

\* baseMidnight.setHours(0, 0, 0, 0) on the date `clock`
MidnightOf(clock) == clock - (clock % DayMs)

\* secondsFromMidnightToDate, read at wall-clock time `clock`
SecondsFromMidnightToDate(seconds, clock) ==
  LET baseMidnight == IF seconds >= SecondsPerDay
                        THEN MidnightOf(clock) - DayMs
                        ELSE MidnightOf(clock)
  IN baseMidnight + seconds * 1000

\* calculateMeasuredAtFromRow for a row the schema has accepted
CalculateMeasuredAtFromRow(raw, fallbackTime, clock) ==
  IF raw # Undefined /\ ToNumber(raw).n > 0
    THEN SecondsFromMidnightToDate(ToNumber(raw).n, clock)
    ELSE fallbackTime

\* parseVehicleLine lines 695-700 and 736 on a row whose other fields are
\* valid: the row is rejected by the schema, or measuredAt is computed
MeasuredAtCall(r, raw, fallbackTime, clock) ==
  /\ rd[r].pc = "idle"
  /\ rd' = [rd EXCEPT ![r] =
       [IdleRead EXCEPT
          !.op = "calculateMeasuredAtFromRow", !.pc = "done",
          !.call = [raw |-> raw, fallbackTime |-> fallbackTime,
                    clock |-> clock,
                    measuredAt |->
                      IF TimeFieldValid(raw)
                        THEN CalculateMeasuredAtFromRow(raw, fallbackTime, clock)
                        ELSE NoTime],
          !.res = IF TimeFieldValid(raw) THEN "vehicle" ELSE "null"]]
  /\ UNCHANGED <<client, now, remote, metaFile, dataFile, tmpFiles, lastSyncTimes,
                 routeCaches, sy, nSync, nRead, nBuilt, nFaults, nRemote, hist>>

TimeInit ==
  /\ client = DefaultClient
  /\ now = 0
  /\ remote = [c \in SyncedCities |-> "lm1"]
  /\ metaFile = [c \in SyncedCities \cup CustomCities |-> MetaAbsent]
  /\ dataFile = [c \in SyncedCities \cup CustomCities |->
                   [f \in DataFileSet |-> Absent]]
  /\ tmpFiles = {}
  /\ lastSyncTimes = [c \in SyncedCities \cup CustomCities |-> NoTime]
  /\ routeCaches = [c \in SyncedCities \cup CustomCities |-> NoCache]
  /\ sy = [t \in SyncTasks |-> IdleSync]
  /\ rd = [r \in TimeTasks |-> IdleRead]
  /\ nSync = 0
  /\ nRead = 0
  /\ nBuilt = 0
  /\ nFaults = 0
  /\ nRemote = 0
  /\ hist = [c \in SyncedCities |-> InitHist]

TimeNext ==
  \E r \in TimeTasks :
    /\ rd[r].pc = "idle"
    /\ \E raw \in TimeFields, fallbackTime \in FetchTimes, clock \in Clocks :
         MeasuredAtCall(r, raw, fallbackTime, clock)

TimeSpec == TimeInit /\ [][TimeNext]_vars

\* task r has computed the measurement time of a row
Measured(r) ==
  /\ rd[r].op = "calculateMeasuredAtFromRow"
  /\ rd[r].pc = "done" /\ rd[r].res = "vehicle"

\* C24: in the header-mapped decoder measuredAt comes from the row's
\* seconds-from-midnight column through the service-day conversion whenever
\* the column carries a value, 0 included, and is the reference time the
\* caller supplied only when the column is absent; two decodes of the same
\* row with the same reference time give the same measuredAt.
C24_MeasuredAtFromColumn ==
  /\ \A r \in TimeTasks :
       Measured(r) =>
         LET raw == rd[r].call.raw
             carries == raw # Undefined /\ raw # ""
         IN
         /\ carries =>
              rd[r].call.measuredAt =
                SecondsFromMidnightToDate(ToNumber(raw).n, rd[r].call.clock)
         /\ raw = Undefined => rd[r].call.measuredAt = rd[r].call.fallbackTime
  /\ \A r1, r2 \in TimeTasks :
       (/\ Measured(r1) /\ Measured(r2)
        /\ rd[r1].call.raw = rd[r2].call.raw
        /\ rd[r1].call.fallbackTime = rd[r2].call.fallbackTime) =>
          rd[r1].call.measuredAt = rd[r2].call.measuredAt

\* ------------------------------------------------------------------------
\* Failures of a sync and what they leave behind
\* ------------------------------------------------------------------------

\* C25: a non-forced sync returns 'up-to-date' only if a complete snapshot
\* for the stored token is on disk: the metadata it answers from and every
\* entity file come from one and the same download. After a sync that failed
\* between the write of the metadata and the write of the last entity file,
\* the next sync under the same remote token does not answer 'up-to-date'.
C25_UpToDateOnlyOverSnapshot ==
  \A t \in SyncTasks :
    (/\ sy[t].pc = "done" /\ ~sy[t].force
     /\ sy[t].res.kind = "ok" /\ sy[t].res.status = "up-to-date") =>
       CacheRewritten(sy[t].city, sy[t].res.counts, sy[t].res.lastModified)

\* a client whose city has never been synced, or was synced at time 0 and
\* has or has not built its index since; then sync calls, which may fail,
\* and one getRoutes call, interleaved at every await
RetryInit ==
  /\ client = DefaultClient
  /\ now = 0
  /\ remote \in [SyncedCities -> Tokens]
  /\ tmpFiles = {}
  /\ sy = [t \in SyncTasks |-> IdleSync]
  /\ rd = [r \in ReadTasks |-> IdleRead]
  /\ nRead = 0
  /\ nFaults = 0
  /\ nRemote = 0
  /\ \E synced \in BOOLEAN, built \in BOOLEAN :
       LET n == IF synced THEN 1 ELSE 0
           was(c) == synced /\ c \in SyncedCities
           has(c) == was(c) /\ built
       IN
       /\ nSync = n
       /\ nBuilt = IF synced /\ built THEN 1 ELSE 0
       /\ metaFile = [c \in SyncedCities \cup CustomCities |->
            IF was(c) THEN CacheMeta("lm1", n) ELSE MetaAbsent]
       /\ dataFile = [c \in SyncedCities \cup CustomCities |->
            [f \in DataFileSet |-> IF was(c) THEN n ELSE Absent]]
       /\ lastSyncTimes = [c \in SyncedCities \cup CustomCities |->
            IF was(c) THEN 0 ELSE NoTime]
       /\ routeCaches = [c \in SyncedCities \cup CustomCities |->
            IF has(c) THEN BuildRouteCache(n, 1) ELSE NoCache]
       /\ hist = [c \in SyncedCities |->
            IF was(c)
              THEN [SyncedHist(n) EXCEPT !.builds = IF built THEN 1 ELSE 0]
              ELSE InitHist]

RetryNext ==
  \/ \E t \in SyncTasks, c \in SyncedCities, force \in BOOLEAN :
       SyncCall(t, c, force)
  \/ \E t \in SyncTasks : SyncThrottleLoad(t)
  \/ \E t \in SyncTasks : SyncHead(t)
  \/ \E t \in SyncTasks : SyncCheck(t)
  \/ \E t \in SyncTasks : SyncDownload(t)
  \/ \E t \in SyncTasks : SyncTempWrite(t)
  \/ \E t \in SyncTasks : SyncExtract(t)
  \/ \E t \in SyncTasks : SyncCleanup(t)
  \/ \E t \in SyncTasks : SyncPersist(t)
  \/ \E t \in SyncTasks : SyncReturn(t)
  \/ \E r \in ReadTasks, c \in SyncedCities :
       rd[r].pc = "idle" /\ ReadCall(r, "getRoutes", c)
  \/ \E r \in ReadTasks : RoutesLoad(r)
  \/ \E r \in ReadTasks : RoutesInstall(r)
  \/ Tick

RetrySpec == RetryInit /\ [][RetryNext]_vars

\* the cache files, the throttle timestamp and the index of city c are the
\* same before and after the step
CacheKept(c) ==
  /\ metaFile'[c] = metaFile[c] /\ dataFile'[c] = dataFile[c]
  /\ lastSyncTimes'[c] = lastSyncTimes[c] /\ routeCaches'[c] = routeCaches[c]

C27_NoStaleInstallAfterSync ==
  \A c \in DOMAIN hist :
    (hist[c].genSnap > 0 /\ routeCaches[c] # NoCache) =>
      routeCaches[c].src >= hist[c].genSnap

\* ------------------------------------------------------------------------
\* Two callers sync the same city on one client, each of them once,
\* interleaved at every await
\* ------------------------------------------------------------------------
PairNext ==
  \/ \E t \in CityTasks, c \in SyncedCities, force \in BOOLEAN :
       sy[t].pc = "idle" /\ SyncCall(t, c, force)
  \/ \E t \in CityTasks : SyncThrottleLoad(t)
  \/ \E t \in CityTasks : SyncHead(t)
  \/ \E t \in CityTasks : SyncCheck(t)
  \/ \E t \in CityTasks : SyncDownload(t)
  \/ \E t \in CityTasks : SyncTempWrite(t)
  \/ \E t \in CityTasks : SyncExtract(t)
  \/ \E t \in CityTasks : SyncCleanup(t)
  \/ \E t \in CityTasks : SyncPersist(t)
  \/ \E t \in CityTasks : SyncReturn(t)
  \/ Tick

PairSpec == CityInit /\ [][PairNext]_vars

\* C28: two syncGtfs executions that run concurrently for the same city
\* never use the same temporary archive path, so the archive an execution
\* is extracting is on disk until that execution's own cleanup removes it.
C28_DistinctTempPaths ==
  \A t \in CityTasks :
    /\ \A u \in CityTasks \ {t} :
         (HoldsTemp(t) /\ HoldsTemp(u) /\ sy[t].city = sy[u].city) =>
            sy[t].tempPath # sy[u].tempPath
    /\ sy[t].pc \in {"extract", "cleanup"} => sy[t].tempPath \in tmpFiles

\* ------------------------------------------------------------------------
\* What a sync makes of the archive it downloaded (part_004 463-558, every
\* read and write succeeding) and what getRoutes lists from it afterwards,
\* for any archive with or without its routes and stops tables
\* ------------------------------------------------------------------------
CoreTables == {"routes.txt", "stops.txt"}

\* an archive: the names of its entries and the data rows of its routes.txt
Archives ==
  [names : SUBSET CoreTables, rows : SeqsUpTo(RouteRows, MaxTableRows)]

\* what parseStopsContent returns for the stops.txt of the archive
ParsedStops == <<"stop">>

\* lines 463-505: the entities start empty and are replaced by the parsed
\* table when the archive has an entry of that name
ExtractedEntities(archive) ==
  [routes |-> IF "routes.txt" \in archive.names
                THEN ParseRoutesContent(archive.rows) ELSE <<>>,
   stops |-> IF "stops.txt" \in archive.names THEN ParsedStops ELSE <<>>]

\* lines 526-539 and 551-558: routes.size and stops.length
EntityCounts(entities) ==
  [routeCount |-> Len(entities.routes), stopCount |-> Len(entities.stops)]

\* saveRoutes: JSON.stringify(Array.from(routes.entries()))
SaveRoutes(routes) ==
  [i \in 1..Len(routes) |-> <<routes[i].key, routes[i].route>>]

\* loadCachedRoutes: new Map(JSON.parse(content))
RECURSIVE MapOfEntries(_, _)
MapOfEntries(entries, m) ==
  IF entries = <<>> THEN m
  ELSE MapOfEntries(Tail(entries), MapSet(m, Head(entries)[1], Head(entries)[2]))
LoadCachedRoutes(json) == MapOfEntries(json, <<>>)

\* getRoutes lines 495-506: the values of the map, one per route id
RECURSIVE DedupeById(_, _, _)
DedupeById(entries, seen, routes) ==
  IF entries = <<>> THEN routes
  ELSE LET route == Head(entries).route IN
       IF route.id \in seen
         THEN DedupeById(Tail(entries), seen, routes)
         ELSE DedupeById(Tail(entries), seen \cup {route.id},
                         Append(routes, route))
GetRoutes(routesMap) == DedupeById(routesMap, {}, <<>>)

\* syncGtfs from line 463 on for one archive, then getRoutes
ArchiveCall(r, archive) ==
  LET entities == ExtractedEntities(archive)
      counts == EntityCounts(entities)
      json == SaveRoutes(entities.routes)
  IN
  /\ rd[r].pc = "idle"
  /\ rd' = [rd EXCEPT ![r] =
       [IdleRead EXCEPT
          !.op = "syncGtfs", !.pc = "done",
          !.call = [archive |-> archive,
                    status |-> "updated",
                    routeCount |-> counts.routeCount,
                    stopCount |-> counts.stopCount,
                    meta |-> counts,
                    written |-> {"meta"} \cup DataFileSet,
                    routesJson |-> json,
                    stopsJson |-> entities.stops,
                    listed |-> GetRoutes(LoadCachedRoutes(json))],
          !.res = "result"]]
  /\ UNCHANGED <<client, now, remote, metaFile, dataFile, tmpFiles, lastSyncTimes,
                 routeCaches, sy, nSync, nRead, nBuilt, nFaults, nRemote, hist>>

ArchiveNext ==
  \E r \in ReadTasks :
    /\ rd[r].pc = "idle"
    /\ \E archive \in Archives : ArchiveCall(r, archive)

ArchiveSpec == Init /\ [][ArchiveNext]_vars

\* task r has synced an archive and listed the routes
Synced(r) == rd[r].op = "syncGtfs" /\ rd[r].pc = "done"

\* C29: the routeCount carried by the sync result and stored in the
\* metadata equals the number of routes getRoutes returns for the city
\* right after that sync.
C29_RouteCountIsRoutesListed ==
  \A r \in ReadTasks :
    Synced(r) =>
      /\ rd[r].call.routeCount = Len(rd[r].call.listed)
      /\ rd[r].call.meta.routeCount = Len(rd[r].call.listed)

\* C30: when the downloaded archive lacks the routes table or the stops
\* table, the sync fails with GtfsSyncError instead of returning 'updated'
\* and writes no cache file, so a valid cache is not replaced by empty core
\* entities.
C30_MissingCoreTableFails ==
  \A r \in ReadTasks :
    (Synced(r) /\ ~(CoreTables \subseteq rd[r].call.archive.names)) =>
      /\ rd[r].call.status = "GtfsSyncError"
      /\ rd[r].call.written = {}
====
